---- MODULE Spec2Model ----
(***************************************************************************)
(* Race controller of BallDrop: the server-side race state machine         *)
(* (startRace, countdown interval, 60 Hz update tick, finalize timeout,    *)
(* player registration and removal) and the pure helpers it uses.          *)
(*                                                                         *)
(* Player ids are modelled as tuples: <<"mf", n>> is the string `mf_${n}`  *)
(* issued by addMusicfyPlayer, <<"socket", k>> is the socket.id of the     *)
(* k-th connection, and <<>> is the empty string.                          *)
(* Optional fields of a JavaScript object (rank, finishTime, startTime)    *)
(* are modelled as record fields that are absent from the DOMAIN.          *)
(***************************************************************************)
EXTENDS Integers, Sequences, FiniteSets, TLC

(***************************************************************************)
(* Bounds of the model.                                                    *)
(***************************************************************************)
\* addMusicfyPlayer is accepted while nextPlayerId <= MaxPlayerId
MaxPlayerId == 2
\* number of connected sockets that may send `join`
MaxSockets == 1
\* Date.now() advances from 1 up to 1 + MaxClockSteps * FinalizeDelay
MaxClockSteps == 1
\* startRace is only issued while fewer than MaxIntervals intervals are live
MaxIntervals == 1
\* a tick of update is taken while it leaves every stall counter <= MaxStuckTicks
MaxStuckTicks == 1
\* number of racers a snapshot shown to the client's camera loop may hold
MaxLeaderRacers == 3
\* the camera loop runs while performance.now() <= MaxPerfNow
MaxPerfNow == 300
\* the countdown timers live at once where a stale timer meets the next race
MaxStaleIntervals == 2
\* ids that addMusicfyPlayer issues in the race of four
MaxRankedPlayerId == 4
\* ids that addMusicfyPlayer issues in the race of two
MaxFairPlayerId == 1

(***************************************************************************)
(* Program constants.                                                      *)
(***************************************************************************)
CountdownStart == 3
CountdownPeriod == 1000
FinalizeDelay == 500
RankFallback == 999
\* the speed below which a tick counts as stalled, 0.2, in tenths of a unit
StuckSpeedTenths == 2
\* the number of stalled ticks a ball may accumulate without a nudge
StuckLimit == 120
\* the period and the window of the wall-clock nudge, in ms
PeriodicNudgePeriod == 3000
PeriodicNudgeWindow == 20
LEADER_SWITCH_GRACE_MS == 140
LEADER_SWITCH_MARGIN == 10
\* the value of a timer handle variable that holds no timer
Null == 0

\* of staticObstacles, the first obstacles that spin; angularVelocity in hundredths
map1 ==
  [ id |-> "map1",
    spawnPoints |-> << [x |-> 370, y |-> 80], [x |-> 400, y |-> 80], [x |-> 430, y |-> 80] >>,
    staticObstacles |-> << [ position |-> [x |-> 400, y |-> 450], angularVelocity |-> 4 ],
                         [ position |-> [x |-> 190, y |-> 660], angularVelocity |-> -5 ] >>,
    finishZone |-> [x |-> 0, y |-> 4880, width |-> 800, height |-> 120],
    path |-> << [x |-> 400, y |-> 0], [x |-> 400, y |-> 1000], [x |-> 400, y |-> 2000],
                [x |-> 400, y |-> 3000], [x |-> 400, y |-> 4000], [x |-> 400, y |-> 5000] >> ]

map2 ==
  [ id |-> "map2",
    spawnPoints |-> << [x |-> 360, y |-> 80], [x |-> 400, y |-> 80], [x |-> 440, y |-> 80] >>,
    staticObstacles |-> << [ position |-> [x |-> 400, y |-> 1600], angularVelocity |-> 2 ] >>,
    finishZone |-> [x |-> 0, y |-> 4880, width |-> 800, height |-> 120],
    path |-> << [x |-> 400, y |-> 0], [x |-> 400, y |-> 1000], [x |-> 400, y |-> 2000],
                [x |-> 400, y |-> 3000], [x |-> 400, y |-> 4000], [x |-> 400, y |-> 5000] >> ]

map3 ==
  [ id |-> "map3",
    spawnPoints |-> << [x |-> 370, y |-> 80], [x |-> 400, y |-> 80], [x |-> 430, y |-> 80] >>,
    staticObstacles |-> << [ position |-> [x |-> 400, y |-> 460], angularVelocity |-> 14 ] >>,
    finishZone |-> [x |-> 0, y |-> 4880, width |-> 800, height |-> 120],
    path |-> << [x |-> 400, y |-> 0], [x |-> 400, y |-> 1000], [x |-> 400, y |-> 2000],
                [x |-> 400, y |-> 3000], [x |-> 400, y |-> 4000], [x |-> 400, y |-> 5000] >> ]

allMaps == << map1, map2, map3 >>

(***************************************************************************)
(* Inputs.                                                                 *)
(***************************************************************************)
\* course ids a client may send with startRace: a known one and an unknown one
MapIdInputs == { "map2", "nope" }

MfId(n) == << "mf", n >>
SocketId(k) == << "socket", k >>
SocketIds == { SocketId(k) : k \in 1..MaxSockets }
EmptyString == << >>
\* payloads a client may send with removePlayer
RemoveInputs == { MfId(n) : n \in 1..MaxPlayerId } \cup SocketIds \cup { EmptyString }

\* payloads a client may send as data.musicfyVoiceId
VoiceIdInputs == { EmptyString, << "voice" >> }

\* horizontal spawn jitter, (Math.random() - 0.5) * 40: its middle, and the two
\* ends of its range
SpawnOffsets == { 0 }
JitterOffsets == { -20, 19 }

\* the roster server.ts starts with: p1, p2, p3
HardcodedId(n) == << "p", n >>
HardcodedPlayers == << HardcodedId(1), HardcodedId(2), HardcodedId(3) >>

\* transforms the physics engine may report for a ball after a step; velocities
\* are in tenths of a unit per step
ReadBackTransforms ==
  { [ position |-> [x |-> 400, y |-> 2000], velocity |-> [x |-> 0, y |-> 5], angle |-> 1 ],
    [ position |-> [x |-> 400, y |-> 4880], velocity |-> [x |-> 0, y |-> 0], angle |-> 0 ],
    [ position |-> [x |-> 400, y |-> 4881], velocity |-> [x |-> 1, y |-> 4], angle |-> 2 ] }

\* transforms of a ball on its way down and of one that has crossed the line
RosterTransforms ==
  { [ position |-> [x |-> 400, y |-> 2000], velocity |-> [x |-> 0, y |-> 5], angle |-> 1 ],
    [ position |-> [x |-> 400, y |-> 4881], velocity |-> [x |-> 1, y |-> 4], angle |-> 2 ] }

\* transforms of a ball that creeps (speed 0.1), moves at exactly the stall
\* threshold (speed 0.2), or drifts over the line at rest
StallTransforms ==
  { [ position |-> [x |-> 400, y |-> 2000], velocity |-> [x |-> 0, y |-> 1], angle |-> 0 ],
    [ position |-> [x |-> 400, y |-> 2000], velocity |-> [x |-> 0, y |-> 2], angle |-> 0 ],
    [ position |-> [x |-> 400, y |-> 4881], velocity |-> [x |-> 0, y |-> 0], angle |-> 0 ] }

VARIABLES
  trackedLeaderId,  \* client: id the camera follows, or NullId
  pendingLeader,    \* client: [id, since] of the proposed leader, or NoPending
  perfNow,          \* client: performance.now()
  topRun,           \* client: [id, since] of the racer on top at every observation
                    \* since `since`, or NoPending
  players,          \* roster: sequence of player ids, in Map insertion order
  nextPlayerId,     \* counter of addMusicfyPlayer ids
  currentMap,       \* the course the world was built from
  raceState,        \* [status, countdown, mapId, balls (, startTime)]
  ballBodies,       \* sequence of ids owning a dynamic body, in Map insertion order
  spinningBodies,   \* the kinematic spinners: sequence of [position, velocity,
                    \* angularVelocity], in the order setupMap created them
  ballStuckTime,    \* stall counters: function from the ids that have one to a number
  raceEndTimeout,   \* handle of the finalize timeout, or Null
  timeouts,         \* pending setTimeout timers: set of [id, delay]
  intervals,        \* live setInterval countdown timers: set of [id, delay]
  now,              \* Date.now()
  serverUp,         \* the Node process is running
  projPos,          \* calculateProgress on its own: the position given
  projPath,         \* ... the polyline given
  projResult,       \* ... and the number returned, or NoResult before the call
  lastOp,           \* the handler that ran last, the status it found, and its input
  emitted           \* the events io.emit sent during that handler, in order

serverVars == << players, nextPlayerId, currentMap, raceState, ballBodies, spinningBodies,
                 ballStuckTime,
                 raceEndTimeout, timeouts, intervals, now, serverUp >>
clientVars == << trackedLeaderId, pendingLeader, perfNow, topRun >>
projectVars == << projPos, projPath, projResult >>

vars == << serverVars, clientVars, projectVars, lastOp, emitted >>

(***************************************************************************)
(* Helpers over JavaScript values.                                         *)
(***************************************************************************)
\* a ref that holds null
NullId == << "null" >>
NoPending == [ id |-> NullId, since |-> 0 ]
\* projResult before calculateProgress has returned
NoResult == [ segment |-> -1 ]

Has(r, k) == k \in DOMAIN r
SetField(r, k, v) == (k :> v) @@ r
DeleteField(r, k) == [ f \in (DOMAIN r) \ {k} |-> r[f] ]

SeqToSet(s) == { s[i] : i \in 1..Len(s) }
RemoveFromSeq(s, v) == SelectSeq(s, LAMBDA e : e # v)

\* getStringValue: a non-empty string, or undefined (modelled as the empty string)
getStringValue(value) == IF Len(value) > 0 THEN value ELSE EmptyString

\* Object.keys(raceState.balls), Object.values(...)
BallIds(balls) == { balls[i].id : i \in 1..Len(balls) }
FinishedCount(balls) == Cardinality({ i \in 1..Len(balls) : balls[i].finished })
\* a removal that leaves the racer map as it is
RemoveBall_Kept(balls, id) == balls
RemoveBall(balls, id) == SelectSeq(balls, LAMBDA b : b.id # id)

Snapshot(rs) == [ type |-> "raceUpdate", state |-> rs ]

\* setTimeout / setInterval hand out a handle no live timer of the kind has; the
\* callback of an armed timer runs at some later point, which is left open
FreshTimerId(timers) ==
  CHOOSE i \in 1..(Cardinality(timers) + 1) : \A t \in timers : t.id # i

(***************************************************************************)
(* calculateProgress                                                       *)
(***************************************************************************)
Min(a, b) == IF a < b THEN a ELSE b
Max(a, b) == IF a > b THEN a ELSE b

RECURSIVE SqrtSearch(_, _, _)
SqrtSearch(n, lo, hi) ==
  IF lo >= hi THEN lo
  ELSE LET mid == (lo + hi + 1) \div 2
       IN IF mid * mid <= n THEN SqrtSearch(n, mid, hi) ELSE SqrtSearch(n, lo, mid - 1)
Sqrt(n) == SqrtSearch(n, 0, Min(n, 46340))
Abs(a) == IF a < 0 THEN -a ELSE a
\* Math.sqrt(dx * dx + dy * dy); an axis-aligned segment needs no search
SegmentLength(dx, dy) ==
  IF dx = 0 THEN Abs(dy) ELSE IF dy = 0 THEN Abs(dx) ELSE Sqrt(dx * dx + dy * dy)

\* one iteration of the loop over the segments; acc = [total, minDistance, best],
\* minDistance = -1 stands for Infinity
ProgressStep(pos, p1, p2, acc) ==
  LET dx == p2.x - p1.x
      dy == p2.y - p1.y
      lengthSq == dx * dx + dy * dy
      length == SegmentLength(dx, dy)
      num == (pos.x - p1.x) * dx + (pos.y - p1.y) * dy
      tnum == Max(0, Min(lengthSq, num))             \* t = tnum / lengthSq
      closestX == p1.x + (tnum * dx) \div lengthSq
      closestY == p1.y + (tnum * dy) \div lengthSq
      distSq == (pos.x - closestX) * (pos.x - closestX) + (pos.y - closestY) * (pos.y - closestY)
  IN IF lengthSq = 0 THEN acc
     ELSE IF acc.minDistance = -1 \/ distSq < acc.minDistance
          THEN [ total |-> acc.total + length, minDistance |-> distSq,
                 best |-> acc.total + (tnum * length) \div lengthSq ]
          ELSE [ acc EXCEPT !.total = acc.total + length ]

RECURSIVE ProgressLoop(_, _, _, _)
ProgressLoop(pos, path, i, acc) ==
  IF i > Len(path) - 1 THEN acc.best
  ELSE ProgressLoop(pos, path, i + 1, ProgressStep(pos, path[i], path[i + 1], acc))

calculateProgress(pos, path) ==
  IF Len(path) < 2 THEN pos.y
  ELSE ProgressLoop(pos, path, 1, [ total |-> 0, minDistance |-> -1, best |-> 0 ])

(***************************************************************************)
(* JavaScript numbers: IEEE-754 binary64 with round-to-nearest-even.  A     *)
(* number is [sign, mant, exp] standing for sign * mant * 2^exp, with mant  *)
(* a natural of at most 53 bits held in limbs of 15 bits (least significant *)
(* first) and odd unless the number is zero.  NaN, subnormals and the sign  *)
(* of zero do not arise for the coordinates drawn here.                     *)
(***************************************************************************)
LimbBits == 15
LimbBase == 32768
MantissaBits == 53
\* long division takes the dividend in digits of 5 bits
DigitBase == 32
DigitsPerLimb == 3
DigitWeight == [ j \in 0..2 |-> IF j = 0 THEN 1 ELSE IF j = 1 THEN 32 ELSE 1024 ]

\* the value of an operation on operands that are evaluated first, as JavaScript
\* evaluates them
Apply1(Op(_), x) == CHOOSE v \in { Op(a) : a \in { x } } : TRUE
Apply2(Op(_, _), x, y) == CHOOSE v \in { Op(a, b) : a \in { x }, b \in { y } } : TRUE

RECURSIVE Pow2(_)
Pow2(k) == IF k = 0 THEN 1 ELSE 2 * Pow2(k - 1)

Limb(a, i) == IF i <= Len(a) THEN a[i] ELSE 0

RECURSIVE Trim(_)
Trim(a) == IF Len(a) > 0 /\ a[Len(a)] = 0 THEN Trim(SubSeq(a, 1, Len(a) - 1)) ELSE a

RECURSIVE BigOfNat(_)
BigOfNat(n) == IF n = 0 THEN << >> ELSE << n % LimbBase >> \o BigOfNat(n \div LimbBase)

RECURSIVE BigAddFrom(_, _, _, _)
BigAddFrom(a, b, i, carry) ==
  IF i > Len(a) /\ i > Len(b)
  THEN IF carry = 0 THEN << >> ELSE << carry >>
  ELSE << (Limb(a, i) + Limb(b, i) + carry) % LimbBase >>
         \o BigAddFrom(a, b, i + 1, (Limb(a, i) + Limb(b, i) + carry) \div LimbBase)

BigAdd(a, b) == BigAddFrom(a, b, 1, 0)

\* a - b for a >= b
RECURSIVE BigSubFrom(_, _, _, _)
BigSubFrom(a, b, i, borrow) ==
  IF i > Len(a)
  THEN << >>
  ELSE << (Limb(a, i) - Limb(b, i) - borrow + LimbBase) % LimbBase >>
         \o BigSubFrom(a, b, i + 1, IF Limb(a, i) - Limb(b, i) - borrow < 0 THEN 1 ELSE 0)

BigSub(a, b) == Trim(BigSubFrom(a, b, 1, 0))

\* -1, 0, 1 as a < b, a = b, a > b, comparing from limb i down
RECURSIVE BigCmpFrom(_, _, _)
BigCmpFrom(a, b, i) ==
  IF i = 0 THEN 0
  ELSE IF a[i] < b[i] THEN -1
  ELSE IF a[i] > b[i] THEN 1
  ELSE BigCmpFrom(a, b, i - 1)

BigCmp(a, b) ==
  IF Len(a) < Len(b) THEN -1
  ELSE IF Len(a) > Len(b) THEN 1
  ELSE BigCmpFrom(a, b, Len(a))

\* a * k for 0 <= k < LimbBase
RECURSIVE BigMulLimbFrom(_, _, _, _)
BigMulLimbFrom(a, k, i, carry) ==
  IF i > Len(a)
  THEN IF carry = 0 THEN << >> ELSE << carry >>
  ELSE << (a[i] * k + carry) % LimbBase >>
         \o BigMulLimbFrom(a, k, i + 1, (a[i] * k + carry) \div LimbBase)

BigMulLimb(a, k) == IF k = 0 THEN << >> ELSE BigMulLimbFrom(a, k, 1, 0)

Zeros(n) == [ i \in 1..n |-> 0 ]

BigShiftLimbs(a, n) == IF a = << >> THEN << >> ELSE Zeros(n) \o a

RECURSIVE BigMulFrom(_, _, _)
BigMulFrom(a, b, i) ==
  IF i > Len(b) THEN << >>
  ELSE BigAdd(BigShiftLimbs(BigMulLimb(a, b[i]), i - 1), BigMulFrom(a, b, i + 1))

BigMul(a, b) == BigMulFrom(a, b, 1)

\* a * 2^k
BigShl(a, k) == BigShiftLimbs(BigMulLimb(a, Pow2(k % LimbBits)), k \div LimbBits)

\* floor(a / 2^k)
BigShr(a, k) ==
  LET n == k \div LimbBits
      r == k % LimbBits
      low == Pow2(r)
      high == Pow2(LimbBits - r)
  IN IF n >= Len(a) THEN << >>
     ELSE Trim([ i \in 1..(Len(a) - n) |->
                   (a[i + n] \div low) + (Limb(a, i + n + 1) % low) * high ])

RECURSIVE IntBitLen(_)
IntBitLen(n) == IF n = 0 THEN 0 ELSE 1 + IntBitLen(n \div 2)

BitLen(a) == IF a = << >> THEN 0 ELSE LimbBits * (Len(a) - 1) + IntBitLen(a[Len(a)])

IsOdd(a) == a # << >> /\ a[1] % 2 = 1

RECURSIVE IntTrailingZeros(_)
IntTrailingZeros(n) == IF n % 2 = 1 THEN 0 ELSE 1 + IntTrailingZeros(n \div 2)

\* the number of trailing zero bits of a # 0
RECURSIVE TrailingZerosFrom(_, _)
TrailingZerosFrom(a, i) ==
  IF a[i] = 0 THEN LimbBits + TrailingZerosFrom(a, i + 1) ELSE IntTrailingZeros(a[i])

\* digit i of a in base DigitBase, digit 0 the least significant
Digit(a, i) ==
  (Limb(a, i \div DigitsPerLimb + 1) \div DigitWeight[i % DigitsPerLimb]) % DigitBase

\* floor(a / d) and a mod d for a machine integer 0 < d < 2^26, taking the digits
\* i and above of a: long division, one base-32 digit at a time
RECURSIVE BigDivIntFrom(_, _, _, _)
BigDivIntFrom(a, d, i, top) ==
  IF i >= top THEN [ q |-> << >>, r |-> 0 ]
  ELSE LET Step(h) ==
             [ q |-> BigAdd(BigMulLimb(h.q, DigitBase),
                            BigOfNat((DigitBase * h.r + Digit(a, i)) \div d)),
               r |-> (DigitBase * h.r + Digit(a, i)) % d ]
       IN Apply1(Step, BigDivIntFrom(a, d, i + 1, top))

BigDivInt(a, d) == BigDivIntFrom(a, d, 0, DigitsPerLimb * Len(a))

BigToInt(a) == Limb(a, 1) + LimbBase * Limb(a, 2)

Zero == [ sign |-> 1, mant |-> << >>, exp |-> 0 ]

\* sign * mant * 2^exp with the trailing zero bits of mant moved into exp
Canonical(sign, mant, exp) ==
  IF mant = << >> THEN Zero
  ELSE [ sign |-> sign, mant |-> BigShr(mant, TrailingZerosFrom(mant, 1)),
         exp |-> exp + TrailingZerosFrom(mant, 1) ]

\* the double nearest to sign * (mant + s) * 2^exp, 0 < s < 1 when sticky and
\* s = 0 otherwise; ties go to the even mantissa.  A sticky mant has 55 bits or more.
RoundToDouble(sign, mant, exp, sticky) ==
  IF BitLen(mant) <= MantissaBits
  THEN Canonical(sign, mant, exp)
  ELSE LET d == BitLen(mant) - MantissaBits
           q == BigShr(mant, d)
           cmp == BigCmp(BigSub(mant, BigShl(q, d)), BigShl(<< 1 >>, d - 1))
           up == cmp > 0 \/ (cmp = 0 /\ (sticky \/ IsOdd(q)))
       IN Canonical(sign, IF up THEN BigAdd(q, << 1 >>) ELSE q, exp + d)

Num(n) == IF n < 0 THEN Canonical(-1, BigOfNat(-n), 0) ELSE Canonical(1, BigOfNat(n), 0)

NumNeg(x) == IF x.mant = << >> THEN x ELSE [ x EXCEPT !.sign = -x.sign ]

Sum(x, y) ==
  IF x.mant = << >> THEN y
  ELSE IF y.mant = << >> THEN x
  ELSE LET e == IF x.exp < y.exp THEN x.exp ELSE y.exp
           mx == BigShl(x.mant, x.exp - e)
           my == BigShl(y.mant, y.exp - e)
       IN IF x.sign = y.sign THEN RoundToDouble(x.sign, BigAdd(mx, my), e, FALSE)
          ELSE IF BigCmp(mx, my) >= 0 THEN RoundToDouble(x.sign, BigSub(mx, my), e, FALSE)
          ELSE RoundToDouble(y.sign, BigSub(my, mx), e, FALSE)

Difference(x, y) == Sum(x, NumNeg(y))

Product(x, y) ==
  RoundToDouble(x.sign * y.sign, BigMul(x.mant, y.mant), x.exp + y.exp, FALSE)

\* x / y for a divisor whose mantissa is below 2^26
Quotient(x, y) ==
  IF x.mant = << >> THEN Zero
  ELSE LET k == MantissaBits + 3 + BitLen(y.mant) - BitLen(x.mant)
           shift == IF k > 0 THEN k ELSE 0
           d == BigDivInt(BigShl(x.mant, shift), BigToInt(y.mant))
       IN RoundToDouble(x.sign * y.sign, d.q, x.exp - y.exp - shift, d.r # 0)

NumAdd(x, y) == Apply2(Sum, x, y)
NumSub(x, y) == Apply2(Difference, x, y)
NumMul(x, y) == Apply2(Product, x, y)
NumDiv(x, y) == Apply2(Quotient, x, y)

Infinity == [ sign |-> 1, mant |-> << 1 >>, exp |-> 1024 ]

\* x < y
NumLess(x, y) == x # Infinity /\ (y = Infinity \/ NumSub(x, y).sign = -1)

MathMin_Unclamped(x, y) == y
MathMin(x, y) == IF NumLess(y, x) THEN y ELSE x
MathMax(x, y) == IF NumLess(x, y) THEN y ELSE x

\* the integer a number stands for
NumToInt(x) == x.sign * BigToInt(BigShl(x.mant, x.exp))

\* Math.sqrt of an integer that is a perfect square, as the squared lengths of the
\* segments drawn here are
MathSqrt(x) == Num(Sqrt(NumToInt(x)))

\* Math.pow(x, 2)
MathPow2(x) == NumMul(x, x)

(***************************************************************************)
(* calculateProgress in JavaScript numbers.  The race above computes it in  *)
(* integers, which is exact for the courses of allMaps (vertical segments   *)
(* 1000 long) at integer positions.                                         *)
(***************************************************************************)
\* `distSq < minDistance`: the segment replaces the best one so far
Closer_OrAsClose(distSq, minDistance) == ~NumLess(minDistance, distSq)
Closer(distSq, minDistance) == NumLess(distSq, minDistance)

\* one iteration of the loop over the segments; acc = [total, minDistance, best,
\* segment], segment the index of the segment bestProgress was taken from
ProgressStepNumber(pos, path, i, acc) ==
  LET p1 == path[i]
      p2 == path[i + 1]
      dx == Num(p2.x - p1.x)
      dy == Num(p2.y - p1.y)
      lengthSq == NumAdd(NumMul(dx, dx), NumMul(dy, dy))
      length == MathSqrt(lengthSq)
      t0 == NumDiv(NumAdd(NumMul(Num(pos.x - p1.x), dx), NumMul(Num(pos.y - p1.y), dy)),
                   lengthSq)
      t == MathMax(Zero, MathMin(Num(1), t0))
      closestX == NumAdd(Num(p1.x), NumMul(t, dx))
      closestY == NumAdd(Num(p1.y), NumMul(t, dy))
      distSq == NumAdd(MathPow2(NumSub(Num(pos.x), closestX)),
                       MathPow2(NumSub(Num(pos.y), closestY)))
  IN IF lengthSq = Zero THEN acc
     ELSE IF Closer(distSq, acc.minDistance)
          THEN [ total |-> NumAdd(acc.total, length), minDistance |-> distSq,
                 best |-> NumAdd(acc.total, NumMul(t, length)), segment |-> i ]
          ELSE [ acc EXCEPT !.total = NumAdd(acc.total, length) ]

RECURSIVE ProgressLoopNumber(_, _, _, _)
ProgressLoopNumber(pos, path, i, acc) ==
  IF i > Len(path) - 1 THEN acc
  ELSE LET Rest(next) == ProgressLoopNumber(pos, path, i + 1, next)
       IN Apply1(Rest, ProgressStepNumber(pos, path, i, acc))

\* [value |-> the number calculateProgress returns, segment |-> the index of the
\* segment it was taken from, 0 when from none]
calculateProgressNumber(pos, path) ==
  IF Len(path) < 2 THEN [ value |-> Num(pos.y), segment |-> 0 ]
  ELSE LET acc == ProgressLoopNumber(pos, path, 1,
                    [ total |-> Zero, minDistance |-> Infinity, best |-> Zero,
                      segment |-> 0 ])
       IN [ value |-> acc.best, segment |-> acc.segment ]

(***************************************************************************)
(* Initial state: the module-level state of startServer.                   *)
(***************************************************************************)
Init ==
  /\ players = << >>
  /\ nextPlayerId = 1
  /\ currentMap = allMaps[1]
  /\ raceState = [ status |-> "waiting", countdown |-> 0, mapId |-> allMaps[1].id,
                   balls |-> << >> ]
  /\ ballBodies = << >>
  /\ spinningBodies = << >>
  /\ ballStuckTime = << >>
  /\ raceEndTimeout = Null
  /\ timeouts = {}
  /\ intervals = {}
  /\ now = 1
  /\ serverUp = TRUE
  /\ projPos = [ x |-> 0, y |-> 0 ]
  /\ projPath = << >>
  /\ projResult = NoResult
  /\ trackedLeaderId = NullId
  /\ pendingLeader = NoPending
  /\ perfNow = 0
  /\ topRun = NoPending
  /\ lastOp = [ name |-> "init" ]
  /\ emitted = << >>

(***************************************************************************)
(* socket.on('join')                                                       *)
(***************************************************************************)
MapSet(roster, id) == IF id \in SeqToSet(roster) THEN roster ELSE Append(roster, id)

join(socketId) ==
  /\ players' = MapSet(players, socketId)
  /\ emitted' = << [ type |-> "playerJoined", id |-> socketId ] >>
  /\ lastOp' = [ name |-> "join", status |-> raceState.status, arg |-> socketId ]
  /\ UNCHANGED << nextPlayerId, currentMap, raceState, ballBodies, ballStuckTime,
                  raceEndTimeout, timeouts, intervals, now >>
  /\ UNCHANGED << spinningBodies, serverUp, clientVars, projectVars >>

(***************************************************************************)
(* socket.on('addMusicfyPlayer')                                           *)
(***************************************************************************)
\* an id taken from the first number no player of the roster holds
IssuedId_FirstFree(roster, n) ==
  MfId(CHOOSE k \in 1..(Len(roster) + 1) :
         /\ MfId(k) \notin SeqToSet(roster)
         /\ \A j \in 1..(k - 1) : MfId(j) \in SeqToSet(roster))

\* `mf_${nextPlayerId++}`
IssuedId(roster, n) == MfId(n)

\* addMusicfyPlayer while no more than maxId ids have been issued
addMusicfyPlayerBounded(musicfyVoiceId, maxId) ==
  /\ nextPlayerId <= maxId
  /\ lastOp' = [ name |-> "addMusicfyPlayer", status |-> raceState.status, arg |-> musicfyVoiceId ]
  /\ IF getStringValue(musicfyVoiceId) = EmptyString
     THEN /\ emitted' = << >>
          /\ UNCHANGED << players, nextPlayerId >>
     ELSE /\ players' = MapSet(players, IssuedId(players, nextPlayerId))
          /\ nextPlayerId' = nextPlayerId + 1
          /\ emitted' = << [ type |-> "playerJoined",
                             id |-> IssuedId(players, nextPlayerId) ] >>
  /\ UNCHANGED << currentMap, raceState, ballBodies, ballStuckTime, raceEndTimeout,
                  timeouts, intervals, now >>
  /\ UNCHANGED << spinningBodies, serverUp, clientVars, projectVars >>

addMusicfyPlayer(musicfyVoiceId) == addMusicfyPlayerBounded(musicfyVoiceId, MaxPlayerId)

(***************************************************************************)
(* socket.on('removePlayer')                                               *)
(***************************************************************************)
\* Map.prototype.delete
MapDelete(m, k) == [ j \in (DOMAIN m) \ {k} |-> m[j] ]

\* a guard that only turns away the empty id
RemoveIgnored_OnlyEmpty(playerId) == getStringValue(playerId) = EmptyString

RemoveIgnored(playerId) ==
  \/ getStringValue(playerId) = EmptyString
  \/ getStringValue(playerId) \notin SeqToSet(players)

\* a condition that forgets the countdown case
RemovalEmptiesRace_OnlyRacing(balls, status) == Len(balls) = 0 /\ status = "racing"

\* the race is abandoned when the removal leaves no ball in a live race
RemovalEmptiesRace(balls, status) ==
  Len(balls) = 0 /\ status \in { "countdown", "racing" }

RaceAfterRemoval(rs, id) ==
  LET balls == RemoveBall(rs.balls, id)
  IN IF RemovalEmptiesRace(balls, rs.status)
     THEN DeleteField([ rs EXCEPT !.balls = balls, !.status = "waiting", !.countdown = 0 ],
                      "startTime")
     ELSE [ rs EXCEPT !.balls = balls ]

removePlayer(playerId) ==
  /\ lastOp' = [ name |-> "removePlayer", status |-> raceState.status, arg |-> playerId ]
  /\ IF RemoveIgnored(playerId)
     THEN /\ emitted' = << >>
          /\ UNCHANGED << players, raceState, ballBodies, ballStuckTime >>
     ELSE LET id == getStringValue(playerId)
          IN /\ players' = RemoveFromSeq(players, id)
             /\ ballStuckTime' = MapDelete(ballStuckTime, id)
             /\ ballBodies' = RemoveFromSeq(ballBodies, id)
             /\ raceState' = RaceAfterRemoval(raceState, id)
             /\ emitted' = << [ type |-> "playerLeft", id |-> id ], Snapshot(raceState') >>
  /\ UNCHANGED << nextPlayerId, currentMap, raceEndTimeout, timeouts, intervals, now >>
  /\ UNCHANGED << spinningBodies, serverUp, clientVars, projectVars >>

(***************************************************************************)
(* socket.on('startRace')                                                  *)
(***************************************************************************)
\* a guard that forgets the racing case
StartRaceRejected_OnlyCountdown(status) == status = "countdown"

StartRaceRejected(status) == status = "racing" \/ status = "countdown"

\* a lookup that falls back to the last course
FindMap_LastMap(mapId) ==
  IF \E i \in 1..Len(allMaps) : allMaps[i].id = mapId
  THEN allMaps[CHOOSE i \in 1..Len(allMaps) :
                 /\ allMaps[i].id = mapId
                 /\ \A j \in 1..(i - 1) : allMaps[j].id # mapId]
  ELSE allMaps[Len(allMaps)]

\* allMaps.find(m => m.id === mapId) ?? allMaps[0]
FindMap(mapId) ==
  IF \E i \in 1..Len(allMaps) : allMaps[i].id = mapId
  THEN allMaps[CHOOSE i \in 1..Len(allMaps) :
                 /\ allMaps[i].id = mapId
                 /\ \A j \in 1..(i - 1) : allMaps[j].id # mapId]
  ELSE allMaps[1]

\* a spawn that does not wrap around the spawn points
SpawnBall_Unwrapped(map, id, index, offset) ==
  LET spawn == map.spawnPoints[Min(index, Len(map.spawnPoints))]
  IN [ id |-> id,
       position |-> [ x |-> spawn.x + offset, y |-> spawn.y ],
       velocity |-> [ x |-> 0, y |-> 0 ],
       angle |-> 0,
       progress |-> 0,
       finished |-> FALSE ]

SpawnBall(map, id, index, offset) ==
  LET spawn == map.spawnPoints[((index - 1) % Len(map.spawnPoints)) + 1]
  IN [ id |-> id,
       position |-> [ x |-> spawn.x + offset, y |-> spawn.y ],
       velocity |-> [ x |-> 0, y |-> 0 ],
       angle |-> 0,
       progress |-> 0,
       finished |-> FALSE ]

\* setupMap: the spinner bodies of a course, each at its obstacle's position, at
\* rest, turning at the obstacle's angular velocity
setupMap(map) ==
  [ k \in 1..Len(map.staticObstacles) |->
      [ position |-> map.staticObstacles[k].position,
        velocity |-> [x |-> 0, y |-> 0],
        angularVelocity |-> map.staticObstacles[k].angularVelocity ] ]

\* a clearTimeout that leaves the timer armed
clearTimeout_Kept(timers, handle) == timers

\* clearTimeout(handle): the timer of that handle, if it is still pending, is gone
clearTimeout(timers, handle) == { t \in timers : t.id # handle }

\* startRace while fewer than maxIntervals countdown timers are live
startRaceBounded(mapId, offsets, maxIntervals) ==
  /\ lastOp' = [ name |-> "startRace", status |-> raceState.status, arg |-> mapId,
                 cleared |-> IF StartRaceRejected(raceState.status) THEN {}
                             ELSE timeouts \ clearTimeout(timeouts, raceEndTimeout) ]
  /\ IF StartRaceRejected(raceState.status)
     THEN /\ emitted' = << >>
          /\ UNCHANGED << currentMap, raceState, ballBodies, spinningBodies,
                          raceEndTimeout, timeouts, intervals >>
     ELSE /\ Cardinality(intervals) < maxIntervals
          /\ currentMap' = FindMap(mapId)
          /\ timeouts' = clearTimeout(timeouts, raceEndTimeout)
          /\ raceEndTimeout' = Null
          /\ spinningBodies' = setupMap(currentMap')
          /\ ballBodies' = players
          /\ \E offset \in [ 1..Len(players) -> offsets ] :
               raceState' =
                 [ raceState EXCEPT
                     !.mapId = currentMap'.id,
                     !.balls = [ i \in 1..Len(players) |->
                                   SpawnBall(currentMap', players[i], i, offset[i]) ],
                     !.status = "countdown",
                     !.countdown = CountdownStart ]
          /\ intervals' = intervals \cup
               { [ id |-> FreshTimerId(intervals), delay |-> CountdownPeriod ] }
          /\ emitted' = << Snapshot(raceState'),
                           [ type |-> "raceStart", map |-> currentMap'.id ] >>
  /\ UNCHANGED << players, nextPlayerId, ballStuckTime, now >>
  /\ UNCHANGED << serverUp, clientVars, projectVars >>

startRaceWith(mapId, offsets) == startRaceBounded(mapId, offsets, MaxIntervals)

startRace(mapId) == startRaceWith(mapId, SpawnOffsets)

\* startRace with the spawn jitter at either end of its range
startRaceJitter(mapId) == startRaceWith(mapId, JitterOffsets)

(***************************************************************************)
(* The callback of countdownInterval.                                      *)
(***************************************************************************)
CountdownExpired(countdown) == countdown <= 0

countdownInterval(t) ==
  /\ lastOp' = [ name |-> "countdownInterval", status |-> raceState.status ]
  /\ LET c == raceState.countdown - 1
     IN IF CountdownExpired(c)
        THEN /\ intervals' = intervals \ { t }
             /\ raceState' = SetField([ raceState EXCEPT !.countdown = c, !.status = "racing" ],
                                      "startTime", now)
        ELSE /\ intervals' = intervals
             /\ raceState' = [ raceState EXCEPT !.countdown = c ]
  /\ emitted' = << Snapshot(raceState') >>
  /\ UNCHANGED << players, nextPlayerId, currentMap, ballBodies, ballStuckTime,
                  raceEndTimeout, timeouts, now >>
  /\ UNCHANGED << spinningBodies, serverUp, clientVars, projectVars >>

(***************************************************************************)
(* update: the 60 Hz tick.                                                 *)
(***************************************************************************)
\* a finish test that also fires on the leading edge itself
PastFinish_Inclusive(position, map) == position.y >= map.finishZone.y

PastFinish(position, map) == position.y > map.finishZone.y

\* now - (raceState.startTime || now)
ElapsedSinceStart(rs, t) ==
  t - (IF Has(rs, "startTime") /\ rs.startTime # 0 THEN rs.startTime ELSE t)

BallIndex(balls, id) == CHOOSE i \in 1..Len(balls) : balls[i].id = id

\* the body of `if (!ball.finished) { ... }` for the ball at index i
UpdateBall(balls, i, transform, rs, map, t) ==
  LET moved == [ balls[i] EXCEPT
                   !.position = transform.position,
                   !.velocity = transform.velocity,
                   !.angle = transform.angle,
                   !.progress = calculateProgress(transform.position, map.path) ]
  IN IF PastFinish(moved.position, map)
     THEN LET marked == [ balls EXCEPT ![i] = [ moved EXCEPT !.finished = TRUE ] ]
          IN [ marked EXCEPT ![i] =
                 SetField(SetField(marked[i], "finishTime", ElapsedSinceStart(rs, t)),
                          "rank", FinishedCount(marked)) ]
     ELSE [ balls EXCEPT ![i] = moved ]

\* a loop that skips a body only when the racer map has no ball for it
SkipsBall_OnlyMissing(balls, id) == id \notin BallIds(balls)

\* `if (!ball) continue;` and the else side of `if (!ball.finished)`
SkipsBall(balls, id) == id \notin BallIds(balls) \/ balls[BallIndex(balls, id)].finished

\* for (const [id, body] of ballBodies.entries()) { ... }
RECURSIVE UpdateLoop(_, _, _, _, _, _, _)
UpdateLoop(balls, bodies, k, readBack, rs, map, t) ==
  IF k > Len(bodies) THEN balls
  ELSE LET id == bodies[k]
       IN IF SkipsBall(balls, id)
          THEN UpdateLoop(balls, bodies, k + 1, readBack, rs, map, t)
          ELSE UpdateLoop(UpdateBall(balls, BallIndex(balls, id), readBack[id], rs, map, t),
                          bodies, k + 1, readBack, rs, map, t)

\* the bodies whose transform the loop reads: those it does not skip
UnfinishedBodies(balls, bodies) == { id \in SeqToSet(bodies) : ~SkipsBall(balls, id) }

hasFirstFinisher(balls) == \E i \in 1..Len(balls) : balls[i].finished

\* a tick that never arms the timer
StartsRaceEndTimeout_Never(balls, handle) == FALSE

\* a tick that arms the timer without looking at the handle
StartsRaceEndTimeout_NoPendingCheck(balls, handle) == hasFirstFinisher(balls)

StartsRaceEndTimeout(balls, handle) == hasFirstFinisher(balls) /\ handle = Null

\* Math.sqrt(vx ** 2 + vy ** 2) < 0.2
IsStalled(velocity) ==
  velocity.x * velocity.x + velocity.y * velocity.y < StuckSpeedTenths * StuckSpeedTenths

\* ballStuckTime.get(id) || 0
StuckTimeOf(stuck, id) == IF id \in DOMAIN stuck THEN stuck[id] ELSE 0

\* a threshold that already fires on the 120th stalled tick
NeedsNudge_AtLimit(stuckTime) == stuckTime >= StuckLimit

NeedsNudge(stuckTime) == stuckTime > StuckLimit

\* the ids whose body gets the stall impulse in a tick that reads readBack
StallNudged(stuck, readBack) ==
  { id \in DOMAIN readBack :
      IsStalled(readBack[id].velocity) /\ NeedsNudge(StuckTimeOf(stuck, id) + 1) }

\* a wall-clock impulse that does not sit in the else branch of the speed test
PeriodicNudged_AnySpeed(readBack, t) ==
  { id \in DOMAIN readBack : t % PeriodicNudgePeriod < PeriodicNudgeWindow }

\* the ids whose body gets the small wall-clock impulse, now % 3000 < 20
PeriodicNudged(readBack, t) ==
  { id \in DOMAIN readBack :
      ~IsStalled(readBack[id].velocity) /\ t % PeriodicNudgePeriod < PeriodicNudgeWindow }

\* ballStuckTime after the stuck detection has run for every ball the loop reads
StuckTimesAfter(stuck, readBack) ==
  [ id \in (DOMAIN stuck) \cup (DOMAIN readBack) |->
      IF id \notin DOMAIN readBack THEN stuck[id]
      ELSE IF IsStalled(readBack[id].velocity) /\ ~NeedsNudge(StuckTimeOf(stuck, id) + 1)
           THEN StuckTimeOf(stuck, id) + 1
           ELSE 0 ]

\* a tick that only idles while the race is waiting
TickRuns_UnlessWaiting(status) == status # "waiting"

\* if (raceState.status === 'racing') { ... }
TickRuns(status) == status = "racing"

\* a spinner motor that leaves the bodies as the last step left them
ResetSpinners_Skipped(bodies, map) == bodies
\* the spinner motor: every spinner back at its origin, at rest, turning at its
\* target angular velocity
ResetSpinners(bodies, map) ==
  [ k \in 1..Len(bodies) |->
      [ position |-> map.staticObstacles[k].position,
        velocity |-> [x |-> 0, y |-> 0],
        angularVelocity |-> map.staticObstacles[k].angularVelocity ] ]

\* what one engine step does to the spinners: none, or a marble knocks them
NoDrift == { [ by |-> [x |-> 0, y |-> 0], spin |-> 0 ] }
KnockDrifts == NoDrift \cup { [ by |-> [x |-> 1, y |-> -1], spin |-> -1 ] }

\* Matter.Engine.update on the spinners
EngineStepSpinners(bodies, drift) ==
  [ k \in 1..Len(bodies) |->
      [ position |-> [x |-> bodies[k].position.x + drift.by.x,
                      y |-> bodies[k].position.y + drift.by.y],
        velocity |-> drift.by,
        angularVelocity |-> bodies[k].angularVelocity + drift.spin ] ]

\* the calls a racing tick makes on the engine, the timers and the sockets, in order
TickCalls(bodies, armsTimeout) ==
  [ k \in 1..(3 * Len(bodies)) |->
      IF k % 3 = 1 THEN "Body.setPosition"
      ELSE IF k % 3 = 2 THEN "Body.setVelocity" ELSE "Body.setAngularVelocity" ]
    \o << "Engine.update" >>
    \o (IF armsTimeout THEN << "setTimeout" >> ELSE << >>)
    \o << "io.emit" >>

\* one call of update in which the engine reports transforms of the given set and
\* knocks the spinners as given; the tick is taken while the stall counters stay
\* within maxStuck
Tick(transforms, maxStuck, drifts) ==
  /\ IF TickRuns(raceState.status)
     THEN \E readBack \in [ UnfinishedBodies(raceState.balls, ballBodies) -> transforms ],
             drift \in drifts :
            /\ spinningBodies' =
                 EngineStepSpinners(ResetSpinners(spinningBodies, currentMap), drift)
            /\ raceState' = [ raceState EXCEPT !.balls =
                                UpdateLoop(raceState.balls, ballBodies, 1, readBack,
                                           raceState, currentMap, now) ]
            /\ ballStuckTime' = StuckTimesAfter(ballStuckTime, readBack)
            /\ \A id \in DOMAIN readBack : ballStuckTime'[id] <= maxStuck
            /\ lastOp' = [ name |-> "update", status |-> raceState.status,
                           threw |-> FALSE,
                           found |-> spinningBodies,
                           spinners |-> ResetSpinners(spinningBodies, currentMap),
                           readBack |-> readBack,
                           calls |-> TickCalls(spinningBodies,
                                      StartsRaceEndTimeout(raceState'.balls, raceEndTimeout)),
                           stallNudged |-> StallNudged(ballStuckTime, readBack),
                           periodicNudged |-> PeriodicNudged(readBack, now) ]
            /\ IF StartsRaceEndTimeout(raceState'.balls, raceEndTimeout)
               THEN LET id == FreshTimerId(timeouts)
                    IN /\ raceEndTimeout' = id
                       /\ timeouts' = timeouts \cup
                                        { [ id |-> id, delay |-> FinalizeDelay ] }
               ELSE UNCHANGED << raceEndTimeout, timeouts >>
            /\ emitted' = << Snapshot(raceState') >>
     ELSE /\ emitted' = << >>
          /\ lastOp' = [ name |-> "update", status |-> raceState.status,
                         threw |-> FALSE, found |-> spinningBodies,
                         spinners |-> << >>, readBack |-> << >>,
                         calls |-> << >>, stallNudged |-> {}, periodicNudged |-> {} ]
          /\ UNCHANGED << raceState, spinningBodies, ballStuckTime, raceEndTimeout,
                          timeouts >>
  /\ UNCHANGED << players, nextPlayerId, currentMap, ballBodies, intervals, now >>
  /\ UNCHANGED << serverUp, clientVars, projectVars >>

update == Tick(ReadBackTransforms, MaxStuckTicks, NoDrift)

\* one call of update in which Matter.Engine.update throws: nothing in the
\* server catches it, the exception leaves the timer callback and Node ends
\* the process before the handler assigns or emits anything
updateThrows ==
  /\ TickRuns(raceState.status)
  /\ serverUp' = FALSE
  /\ lastOp' = [ name |-> "update", status |-> raceState.status, threw |-> TRUE,
                 found |-> spinningBodies,
                 spinners |-> ResetSpinners(spinningBodies, currentMap),
                 readBack |-> << >>, calls |-> << >>,
                 stallNudged |-> {}, periodicNudged |-> {} ]
  /\ emitted' = << >>
  /\ spinningBodies' = ResetSpinners(spinningBodies, currentMap)
  /\ UNCHANGED << players, nextPlayerId, currentMap, raceState, ballBodies, ballStuckTime,
                  raceEndTimeout, timeouts, intervals, now >>
  /\ UNCHANGED << clientVars, projectVars >>

\* update while the balls creep: the stall counters run up to the nudge
updateStalling == Tick(StallTransforms, StuckLimit, NoDrift)

(***************************************************************************)
(* finalizeRace and the callback of raceEndTimeout.                        *)
(***************************************************************************)
\* a.rank || 999
RankOr(ball, fallback) == IF Has(ball, "rank") /\ ball.rank # 0 THEN ball.rank ELSE fallback
\* ball.finishTime || 0
FinishTimeOr(ball, fallback) ==
  IF Has(ball, "finishTime") /\ ball.finishTime # 0 THEN ball.finishTime ELSE fallback

\* a comparator that orders unfinished racers by ascending progress
CompareBalls_AscendingProgress(a, b) ==
  IF a.finished # b.finished THEN (IF a.finished THEN -1 ELSE 1)
  ELSE IF a.finished /\ b.finished THEN RankOr(a, RankFallback) - RankOr(b, RankFallback)
  ELSE a.progress - b.progress

\* the comparator handed to sort: negative when a goes first
CompareBalls(a, b) ==
  IF a.finished # b.finished THEN (IF a.finished THEN -1 ELSE 1)
  ELSE IF a.finished /\ b.finished THEN RankOr(a, RankFallback) - RankOr(b, RankFallback)
  ELSE b.progress - a.progress

\* Array.prototype.sort is stable: e goes after every element that does not
\* compare greater than it
RECURSIVE InsertSorted(_, _)
InsertSorted(sorted, e) ==
  IF Len(sorted) = 0 THEN << e >>
  ELSE IF CompareBalls(sorted[Len(sorted)], e) > 0
       THEN Append(InsertSorted(SubSeq(sorted, 1, Len(sorted) - 1), e), sorted[Len(sorted)])
       ELSE Append(sorted, e)

RECURSIVE SortBalls(_)
SortBalls(balls) ==
  IF Len(balls) = 0 THEN << >>
  ELSE InsertSorted(SortBalls(SubSeq(balls, 1, Len(balls) - 1)), balls[Len(balls)])

RaceResults(balls) ==
  LET orderedBalls == SortBalls(balls)
  IN [ idx \in 1..Len(orderedBalls) |->
         [ playerId |-> orderedBalls[idx].id,
           rank |-> RankOr(orderedBalls[idx], idx),
           time |-> FinishTimeOr(orderedBalls[idx], 0) ] ]

\* a finalizeRace without its status guard
FinalizeSkipped_Never(status) == FALSE

FinalizeSkipped(status) == status # "racing"

\* a finalizeRace that empties the roster with the race
finalizeRace_ClearsRoster ==
  IF FinalizeSkipped(raceState.status)
  THEN /\ emitted' = << >>
       /\ UNCHANGED << raceState, players >>
  ELSE /\ raceState' = [ raceState EXCEPT !.status = "finished", !.countdown = 0 ]
       /\ emitted' = << Snapshot(raceState'),
                        [ type |-> "raceEnd", results |-> RaceResults(raceState.balls) ] >>
       /\ players' = << >>

finalizeRace ==
  IF FinalizeSkipped(raceState.status)
  THEN /\ emitted' = << >>
       /\ UNCHANGED << raceState, players >>
  ELSE /\ raceState' = [ raceState EXCEPT !.status = "finished", !.countdown = 0 ]
       /\ emitted' = << Snapshot(raceState'),
                        [ type |-> "raceEnd", results |-> RaceResults(raceState.balls) ] >>
       /\ UNCHANGED players

\* the callback armed by update: raceEndTimeout = null; finalizeRace()
raceEndTimeoutCallback(t) ==
  /\ lastOp' = [ name |-> "raceEndTimeout", status |-> raceState.status ]
  /\ timeouts' = timeouts \ { t }
  /\ raceEndTimeout' = Null
  /\ finalizeRace
  /\ UNCHANGED << nextPlayerId, currentMap, ballBodies, ballStuckTime, intervals, now >>
  /\ UNCHANGED << spinningBodies, serverUp, clientVars, projectVars >>

(***************************************************************************)
(* Wall-clock time passes between two callbacks.                           *)
(***************************************************************************)
ClockEnd == 1 + MaxClockSteps * FinalizeDelay

AdvanceClock ==
  /\ now + FinalizeDelay <= ClockEnd
  /\ now' = now + FinalizeDelay
  /\ lastOp' = [ name |-> "clock" ]
  /\ emitted' = << >>
  /\ UNCHANGED << players, nextPlayerId, currentMap, raceState, ballBodies, ballStuckTime,
                  raceEndTimeout, timeouts, intervals >>
  /\ UNCHANGED << spinningBodies, serverUp, clientVars, projectVars >>

Next ==
  \/ \E s \in SocketIds : join(s)
  \/ \E v \in VoiceIdInputs : addMusicfyPlayer(v)
  \/ \E p \in RemoveInputs : removePlayer(p)
  \/ \E m \in MapIdInputs : startRace(m)
  \/ \E t \in intervals : countdownInterval(t)
  \/ update
  \/ \E t \in timeouts : raceEndTimeoutCallback(t)
  \/ AdvanceClock

Spec == Init /\ [][Next]_vars

(***************************************************************************)
(* The race of one contestant whose ball creeps for seconds: the same       *)
(* handlers, with the engine reporting near-zero speeds.                    *)
(***************************************************************************)
StallMapInputs == { "map1" }

StallNext ==
  \/ \E s \in SocketIds : join(s)
  \/ \E p \in SocketIds : removePlayer(p)
  \/ \E m \in StallMapInputs : startRace(m)
  \/ \E t \in intervals : countdownInterval(t)
  \/ updateStalling
  \/ \E t \in timeouts : raceEndTimeoutCallback(t)

StallSpec == Init /\ [][StallNext]_vars

(***************************************************************************)
(* server.ts as it stands: the roster starts with three hardcoded players,  *)
(* a fourth joins through a socket, and no player is ever removed.          *)
(***************************************************************************)
RosterInit ==
  /\ players = HardcodedPlayers
  /\ nextPlayerId = 1
  /\ currentMap = allMaps[1]
  /\ raceState = [ status |-> "waiting", countdown |-> 0, mapId |-> allMaps[1].id,
                   balls |-> << >> ]
  /\ ballBodies = << >>
  /\ spinningBodies = << >>
  /\ ballStuckTime = << >>
  /\ raceEndTimeout = Null
  /\ timeouts = {}
  /\ intervals = {}
  /\ now = 1
  /\ serverUp = TRUE
  /\ projPos = [ x |-> 0, y |-> 0 ]
  /\ projPath = << >>
  /\ projResult = NoResult
  /\ trackedLeaderId = NullId
  /\ pendingLeader = NoPending
  /\ perfNow = 0
  /\ topRun = NoPending
  /\ lastOp = [ name |-> "init" ]
  /\ emitted = << >>

updateRoster == Tick(RosterTransforms, MaxStuckTicks, NoDrift)

RosterNext ==
  \/ \E s \in SocketIds : join(s)
  \/ \E m \in MapIdInputs : startRaceJitter(m)
  \/ \E t \in intervals : countdownInterval(t)
  \/ updateRoster
  \/ \E t \in timeouts : raceEndTimeoutCallback(t)

RosterSpec == RosterInit /\ [][RosterNext]_vars

(***************************************************************************)
(* The race with a physics backend that can fail: a tick may find           *)
(* Matter.Engine.update throwing.  Handlers and timer callbacks run only    *)
(* while the process is up.                                                 *)
(***************************************************************************)
FaultNext ==
  \/ serverUp /\ \E s \in SocketIds : join(s)
  \/ serverUp /\ \E m \in MapIdInputs : startRace(m)
  \/ serverUp /\ \E t \in intervals : countdownInterval(t)
  \/ serverUp /\ update
  \/ serverUp /\ updateThrows
  \/ serverUp /\ \E t \in timeouts : raceEndTimeoutCallback(t)

FaultSpec == Init /\ [][FaultNext]_vars

(***************************************************************************)
(* The race of one contestant who leaves during the countdown and joins     *)
(* again: the countdown timer of the abandoned race is still live when the  *)
(* next race starts, so that two timers run.                                *)
(***************************************************************************)
startRaceAgain(mapId) == startRaceBounded(mapId, SpawnOffsets, MaxStaleIntervals)

StaleNext ==
  \/ \E s \in SocketIds : join(s)
  \/ \E p \in SocketIds : removePlayer(p)
  \/ \E m \in StallMapInputs : startRaceAgain(m)
  \/ \E t \in intervals : countdownInterval(t)
  \/ update
  \/ \E t \in timeouts : raceEndTimeoutCallback(t)
  \/ AdvanceClock

StaleSpec == Init /\ [][StaleNext]_vars

(***************************************************************************)
(* The race of up to four contestants registered through addMusicfyPlayer,  *)
(* some of whom are removed after they have finished.                       *)
(***************************************************************************)
RankedVoiceInputs == { << "voice" >> }
RankedIds == { MfId(n) : n \in 1..MaxRankedPlayerId }

RankNext ==
  \/ \E v \in RankedVoiceInputs : addMusicfyPlayerBounded(v, MaxRankedPlayerId)
  \/ \E p \in RankedIds : removePlayer(p)
  \/ \E m \in StallMapInputs : startRace(m)
  \/ \E t \in intervals : countdownInterval(t)
  \/ updateRoster
  \/ \E t \in timeouts : raceEndTimeoutCallback(t)
  \/ AdvanceClock

RankSpec == Init /\ [][RankNext]_vars

(***************************************************************************)
(* The race of two contestants, either of whom may be removed, with the     *)
(* timers of Node firing: an armed raceEndTimeout runs its callback.        *)
(***************************************************************************)
FairIds == SocketIds \cup { MfId(n) : n \in 1..MaxFairPlayerId }

FairNext ==
  \/ \E s \in SocketIds : join(s)
  \/ \E v \in RankedVoiceInputs : addMusicfyPlayerBounded(v, MaxFairPlayerId)
  \/ \E p \in FairIds : removePlayer(p)
  \/ \E m \in StallMapInputs : startRace(m)
  \/ \E t \in intervals : countdownInterval(t)
  \/ updateRoster
  \/ \E t \in timeouts : raceEndTimeoutCallback(t)

FairSpec ==
  /\ Init /\ [][FairNext]_vars
  /\ WF_vars(\E t \in timeouts : raceEndTimeoutCallback(t))

(***************************************************************************)
(* The race on a course whose spinners the marbles knock: an engine step    *)
(* may leave a spinner off its origin, moving, at another angular velocity. *)
(***************************************************************************)
updateKnocked == Tick(ReadBackTransforms, MaxStuckTicks, KnockDrifts)

SpinNext ==
  \/ \E s \in SocketIds : join(s)
  \/ \E m \in MapIdInputs : startRace(m)
  \/ \E t \in intervals : countdownInterval(t)
  \/ updateKnocked
  \/ \E t \in timeouts : raceEndTimeoutCallback(t)

SpinSpec == Init /\ [][SpinNext]_vars

(***************************************************************************)
(* calculateProgress on its own: one call on a position and a polyline with *)
(* integer coordinates.                                                     *)
(***************************************************************************)
Point(x, y) == [ x |-> x, y |-> y ]

\* vertical polylines that start at y = 0 and run down
VerticalPaths ==
  { << Point(400, 0), Point(400, 1000) >>,
    << Point(400, 0), Point(400, 49) >>,
    << Point(400, 0), Point(400, 300), Point(400, 1000) >>,
    << Point(400, 0), Point(400, 5000) >>,
    map1.path }

\* polylines with a corner, a diagonal, a zero-length segment, a single point
CornerPaths ==
  { << Point(0, 0), Point(100, 0), Point(100, 100) >>,
    << Point(0, 0), Point(300, 400) >>,
    << Point(0, 0), Point(100, 0), Point(100, 0), Point(100, 100) >>,
    << Point(0, 0), Point(0, 0), Point(0, 70) >>,
    << Point(400, 0), Point(400, 49), Point(449, 49) >>,
    << Point(5, 5), Point(5, 5) >>,
    << Point(5, 5) >> }

ProjectPaths == VerticalPaths \cup CornerPaths

ProjectXs == { 400, 450, 90, 150 }
ProjectYs == { -10, 0, 1, 3, 10, 21, 49, 200, 500, 1000, 2000, 4881, 5000, 5010 }
ProjectPositions == { Point(x, y) : x \in ProjectXs, y \in ProjectYs }

ProjectInit ==
  /\ players = << >>
  /\ nextPlayerId = 1
  /\ currentMap = allMaps[1]
  /\ raceState = [ status |-> "waiting", countdown |-> 0, mapId |-> allMaps[1].id,
                   balls |-> << >> ]
  /\ ballBodies = << >>
  /\ spinningBodies = << >>
  /\ ballStuckTime = << >>
  /\ raceEndTimeout = Null
  /\ timeouts = {}
  /\ intervals = {}
  /\ now = 1
  /\ serverUp = TRUE
  /\ projPos \in ProjectPositions
  /\ projPath \in ProjectPaths
  /\ projResult = NoResult
  /\ trackedLeaderId = NullId
  /\ pendingLeader = NoPending
  /\ perfNow = 0
  /\ topRun = NoPending
  /\ lastOp = [ name |-> "init" ]
  /\ emitted = << >>

\* the call calculateProgress(projPos, projPath)
calculateProgressCall ==
  /\ projResult = NoResult
  /\ projResult' = calculateProgressNumber(projPos, projPath)
  /\ lastOp' = [ name |-> "calculateProgress" ]
  /\ emitted' = << >>
  /\ UNCHANGED << projPos, projPath, serverVars, clientVars >>

ProjectNext == calculateProgressCall

ProjectSpec == ProjectInit /\ [][ProjectNext]_vars

(***************************************************************************)
(* The camera loop of the client (requestAnimationFrame): leader tracking   *)
(* with a switch grace period.                                              *)
(***************************************************************************)
LeaderIds == { MfId(n) : n \in 1..MaxLeaderRacers }
LeaderProgress == { 100, 105, 115 }
\* time between two frames of the loop, in ms
FrameGaps == { 60, 80 }

\* Object.values(raceState.balls) of a snapshot: the racers that f gives a
\* progress, in id order
RECURSIVE BallsOf(_, _)
BallsOf(f, n) ==
  IF n = 0 THEN << >>
  ELSE IF MfId(n) \notin DOMAIN f THEN BallsOf(f, n - 1)
       ELSE Append(BallsOf(f, n - 1), [ id |-> MfId(n), progress |-> f[MfId(n)] ])

SnapshotBalls ==
  { BallsOf(f, MaxLeaderRacers) :
      f \in UNION { [ present -> LeaderProgress ] : present \in SUBSET LeaderIds } }

\* a top ball taken without sorting: the first of the snapshot
TopBall_Unsorted(balls) == balls[1]

\* [...balls].sort((a, b) => b.progress - a.progress)[0]: the sort is stable, so
\* the first ball of the highest progress
TopBall(balls) ==
  balls[CHOOSE i \in 1..Len(balls) :
          /\ \A j \in 1..Len(balls) : balls[j].progress <= balls[i].progress
          /\ \A j \in 1..(i - 1) : balls[j].progress < balls[i].progress]

\* balls.find(ball => ball.id === id) || fallback
FindBall(balls, id, fallback) ==
  IF \E i \in 1..Len(balls) : balls[i].id = id
  THEN balls[CHOOSE i \in 1..Len(balls) : balls[i].id = id]
  ELSE fallback

\* a grace test that any pending candidate passes
GraceElapsed_AtOnce(t, since) == t - since >= 0

GraceElapsed(t, since) == t - since >= LEADER_SWITCH_GRACE_MS

\* a margin test that lets every lead change through
DecisiveGap_Any(progressGap) == progressGap >= 0

DecisiveGap(progressGap) == progressGap > LEADER_SWITCH_MARGIN

\* the body of `if (balls.length > 0) { ... }` up to the camera update: the refs
\* after an observation of balls at time t
LeaderAfter(tracked, pending, balls, t) ==
  LET topBall == TopBall(balls)
      tracked1 == IF tracked = NullId THEN topBall.id ELSE tracked
      currentTracked == FindBall(balls, tracked1, topBall)
      progressGap == topBall.progress - currentTracked.progress
  IN IF topBall.id # currentTracked.id
     THEN IF DecisiveGap(progressGap)
          THEN [ tracked |-> topBall.id, pending |-> NoPending ]
          ELSE IF pending.id = topBall.id
               THEN IF GraceElapsed(t, pending.since)
                    THEN [ tracked |-> topBall.id, pending |-> NoPending ]
                    ELSE [ tracked |-> tracked1, pending |-> pending ]
               ELSE [ tracked |-> tracked1,
                      pending |-> [ id |-> topBall.id, since |-> t ] ]
     ELSE [ tracked |-> tracked1, pending |-> NoPending ]

\* the number of non-empty observations the loop has made since its last
\* observation of an empty racer set, counted up to 2; 2 before any empty one
SinceEmpty(op) == IF op.name = "loop" THEN op.sinceEmpty ELSE 2

SinceEmptyAfter(op, ready, balls) ==
  IF ~ready THEN SinceEmpty(op)
  ELSE IF Len(balls) = 0 THEN 0
       ELSE IF SinceEmpty(op) = 0 THEN 1 ELSE 2

\* one frame: ready is `rendererRef.current && map && raceState`, balls the
\* racers of the snapshot the client holds
loop(ready, balls, gap) ==
  /\ perfNow + gap <= MaxPerfNow
  /\ perfNow' = perfNow + gap
  /\ lastOp' = [ name |-> "loop", ready |-> ready, balls |-> balls,
                 tracked |-> trackedLeaderId, pending |-> pendingLeader,
                 sinceEmpty |-> SinceEmptyAfter(lastOp, ready, balls) ]
  /\ emitted' = << >>
  /\ IF ~ready
     THEN UNCHANGED << trackedLeaderId, pendingLeader, topRun >>
     ELSE IF Len(balls) > 0
          THEN LET after == LeaderAfter(trackedLeaderId, pendingLeader, balls, perfNow')
               IN /\ trackedLeaderId' = after.tracked
                  /\ pendingLeader' = after.pending
                  /\ topRun' = IF topRun.id = TopBall(balls).id THEN topRun
                               ELSE [ id |-> TopBall(balls).id, since |-> perfNow' ]
          ELSE /\ trackedLeaderId' = NullId
               /\ pendingLeader' = NoPending
               /\ topRun' = NoPending
  /\ UNCHANGED << serverVars, projectVars >>

LeaderNext ==
  \E ready \in BOOLEAN, balls \in SnapshotBalls, gap \in FrameGaps : loop(ready, balls, gap)

LeaderSpec == Init /\ [][LeaderNext]_vars

(***************************************************************************)
(* Properties.                                                             *)
(***************************************************************************)
Status == raceState.status
StatusAfter == raceState'.status
EmittedTypes(events) == [ i \in 1..Len(events) |-> events[i].type ]
FinishedBalls(balls) == { i \in 1..Len(balls) : balls[i].finished }

\* the lifecycle of the race as the specification draws it
LifecycleEdges ==
  { << "waiting", "countdown" >>, << "countdown", "racing" >>,
    << "racing", "finished" >>, << "finished", "countdown" >> }

\* C1: the race status changes only along waiting -> countdown -> racing ->
\* finished -> countdown, or to waiting in a removePlayer step that leaves the
\* racer map empty; no other change of status ever occurs.
C1_StatusFollowsLifecycle ==
  [][ StatusAfter # Status =>
        \/ << Status, StatusAfter >> \in LifecycleEdges
        \/ /\ StatusAfter = "waiting"
           /\ lastOp'.name = "removePlayer"
           /\ Len(raceState'.balls) = 0 ]_vars

\* C2: a startRace received while status is countdown or racing changes nothing:
\* race state, course, bodies, roster and every pending timer stay as they are,
\* no event is emitted and no countdown timer is created.
C2_StartRaceWhileLiveIsNoOp ==
  [][ (lastOp'.name = "startRace" /\ Status \in { "countdown", "racing" }) =>
        /\ emitted' = << >>
        /\ UNCHANGED << players, nextPlayerId, currentMap, raceState, ballBodies,
                        raceEndTimeout, timeouts, intervals, now >> ]_vars

\* a startRace was just ignored during a countdown with racers and a live timer
C2_Witness ==
  /\ lastOp.name = "startRace"
  /\ lastOp.status = "countdown"
  /\ Status = "countdown"
  /\ emitted = << >>
  /\ Len(raceState.balls) > 0
  /\ Cardinality(intervals) = 1

\* C3: in every reachable state the ranks held by the finished racers of the
\* racer map are exactly 1..N, N the number of finished racers, none twice.
C3_RanksArePermutation ==
  LET balls == raceState.balls
      fin == FinishedBalls(balls)
  IN /\ \A i \in fin : Has(balls[i], "rank")
     /\ { balls[i].rank : i \in fin } = 1..Cardinality(fin)
     /\ \A i, j \in fin : balls[i].rank = balls[j].rank => i = j

\* C4: a removePlayer of a registered player during countdown or racing that
\* leaves the racer map empty sets status = waiting, countdown = 0, deletes
\* startTime and emits playerLeft then a snapshot, all in that step; when the
\* racer map stays non-empty, status, countdown and startTime are unchanged.
C4_RemovalEmptyingRaceGoesWaiting ==
  [][ ( /\ lastOp'.name = "removePlayer"
        /\ Len(players') < Len(players)
        /\ Status \in { "countdown", "racing" } ) =>
        IF Len(raceState'.balls) = 0
        THEN /\ StatusAfter = "waiting"
             /\ raceState'.countdown = 0
             /\ ~Has(raceState', "startTime")
             /\ Len(emitted') = 2
             /\ emitted'[1].type = "playerLeft"
             /\ emitted'[1].id \in SeqToSet(players) \ SeqToSet(players')
             /\ emitted'[2] = Snapshot(raceState')
        ELSE /\ StatusAfter = Status
             /\ raceState'.countdown = raceState.countdown
             /\ Has(raceState', "startTime") = Has(raceState, "startTime")
             /\ Has(raceState, "startTime") => raceState'.startTime = raceState.startTime
      ]_vars

\* the last racer was just removed from a running race in which a racer had finished
C4_Witness ==
  /\ lastOp.name = "removePlayer"
  /\ lastOp.status = "racing"
  /\ Status = "waiting"
  /\ Len(raceState.balls) = 0
  /\ Len(emitted) = 2
  /\ raceEndTimeout # Null

\* C5: once the race is waiting (a removal having emptied it during countdown),
\* status stays waiting, countdown stays 0 and startTime stays unset until a
\* startRace is handled: no callback of an old countdown timer changes them.
C5_WaitingHoldsUntilStartRace ==
  [][ (Status = "waiting" /\ lastOp'.name # "startRace") =>
        /\ StatusAfter = "waiting"
        /\ raceState'.countdown = 0
        /\ ~Has(raceState', "startTime") ]_vars

\* C6: every callback of a countdown timer lowers countdown by exactly 1 and
\* emits one snapshot of the new state; the value it reaches is 2, 1 or 0,
\* status is countdown at 2 and 1 (as it was before the callback) and becomes
\* racing in the step that reaches 0.
C6_CountdownRunsThreeTwoOneZero ==
  [][ lastOp'.name = "countdownInterval" =>
        /\ raceState'.countdown = raceState.countdown - 1
        /\ emitted' = << Snapshot(raceState') >>
        /\ raceState'.countdown \in 0..(CountdownStart - 1)
        /\ Status = "countdown"
        /\ StatusAfter = (IF raceState'.countdown = 0 THEN "racing" ELSE "countdown") ]_vars

\* position of id in the iteration order of ballBodies
BodyOrder(id) == CHOOSE k \in 1..Len(ballBodies) : ballBodies[k] = id

\* C7: in a racing tick, an unfinished racer is marked finished exactly when its
\* read-back position has y > finishZone.y; it then gets finishTime = now -
\* startTime and rank = 1 + the racers finished before the tick + the racers
\* marked earlier in the same tick's iteration.
C7_FinishMarking ==
  [][ (lastOp'.name = "update" /\ Status = "racing") =>
        /\ Has(raceState, "startTime")
        /\ Len(raceState'.balls) = Len(raceState.balls)
        /\ \A i \in 1..Len(raceState.balls) :
             LET old == raceState.balls[i]
                 new == raceState'.balls[i]
                 earlier == { j \in 1..Len(raceState.balls) :
                                /\ ~raceState.balls[j].finished
                                /\ raceState'.balls[j].finished
                                /\ BodyOrder(raceState.balls[j].id) < BodyOrder(old.id) }
             IN ~old.finished =>
                  /\ new.id = old.id
                  /\ new.finished = (new.position.y > currentMap.finishZone.y)
                  /\ new.finished =>
                       /\ Has(new, "finishTime") /\ Has(new, "rank")
                       /\ new.finishTime = now - raceState.startTime
                       /\ new.rank = Cardinality(FinishedBalls(raceState.balls))
                                       + Cardinality(earlier) + 1 ]_vars

\* a tick has run in which one racer holds rank 2 and another stands exactly on
\* the leading edge of the finish zone, unfinished
C7_Witness ==
  /\ lastOp.name = "update"
  /\ lastOp.status = "racing"
  /\ \E i, j \in 1..Len(raceState.balls) :
       /\ raceState.balls[i].finished
       /\ raceState.balls[i].rank = 2
       /\ ~raceState.balls[j].finished
       /\ raceState.balls[j].position.y = currentMap.finishZone.y

\* C8: a racing tick arms a 500 ms finalize timer exactly when, at its end, some
\* racer is finished and no finalize timer is pending, and nothing else arms
\* one; at most one finalize timer is ever pending; status becomes finished only
\* in the callback of that timer.
C8_FinalizeTimer ==
  [][ /\ Cardinality(timeouts') <= 1
      /\ (raceEndTimeout' # Null) = (timeouts' # {})
      /\ \A t \in timeouts' : t.id = raceEndTimeout' /\ t.delay = FinalizeDelay
      /\ (StatusAfter = "finished" /\ Status # "finished") =>
           (lastOp'.name = "raceEndTimeout" /\ timeouts # {})
      /\ (lastOp'.name = "update" /\ Status = "racing") =>
           IF hasFirstFinisher(raceState'.balls) /\ raceEndTimeout = Null
           THEN Cardinality(timeouts') = 1 /\ timeouts = {}
           ELSE timeouts' = timeouts /\ raceEndTimeout' = raceEndTimeout
      /\ ~(lastOp'.name = "update" /\ Status = "racing") => timeouts' \subseteq timeouts
    ]_vars

\* the tick in which the first racer finished has just armed the finalize timer
C8_Witness ==
  /\ lastOp.name = "update"
  /\ Status = "racing"
  /\ FinishedCount(raceState.balls) = 1
  /\ Cardinality(timeouts) = 1
  /\ raceEndTimeout # Null

\* the ball of the racer map that a results entry is about
BallOf(playerId) == raceState.balls[BallIndex(raceState.balls, playerId)]

\* the results list emitted by the finalization that has just run
LastResults == emitted[2].results
JustFinalized == lastOp.name = "raceEndTimeout" /\ lastOp.status = "racing"

\* C9: the results list emitted at finalization holds exactly one entry per
\* racer of the racer map, with every finished racer before every unfinished
\* one, finished racers in ascending rank and unfinished racers in descending
\* progress.
C9_ResultsOrder ==
  JustFinalized =>
    /\ Len(emitted) = 2
    /\ emitted[2].type = "raceEnd"
    /\ Len(LastResults) = Len(raceState.balls)
    /\ { LastResults[i].playerId : i \in 1..Len(LastResults) } = BallIds(raceState.balls)
    /\ \A i, j \in 1..Len(LastResults) :
         i < j =>
           LET a == BallOf(LastResults[i].playerId)
               b == BallOf(LastResults[j].playerId)
           IN /\ a.finished \/ ~b.finished
              /\ (a.finished /\ b.finished) => a.rank <= b.rank
              /\ (~a.finished /\ ~b.finished) => a.progress >= b.progress

\* a finalization listed three racers, two of them unfinished with different
\* progress, in an order other than that of the racer map
C9_Witness ==
  /\ JustFinalized
  /\ Len(LastResults) = 3
  /\ BallOf(LastResults[1].playerId).finished
  /\ ~BallOf(LastResults[2].playerId).finished
  /\ BallOf(LastResults[2].playerId).progress > BallOf(LastResults[3].playerId).progress
  /\ [ i \in 1..3 |-> LastResults[i].playerId ] # [ i \in 1..3 |-> raceState.balls[i].id ]

C11_FinishedRacerIsFrozen ==
  [][ (lastOp'.name = "update" /\ Status = "racing") =>
        /\ Len(raceState'.balls) = Len(raceState.balls)
        /\ \A i \in FinishedBalls(raceState.balls) :
             /\ raceState'.balls[i] = raceState.balls[i]
             /\ raceState'.balls[i].finished
             /\ Has(raceState'.balls[i], "rank")
             /\ Has(raceState'.balls[i], "finishTime") ]_vars

\* a tick has run after a racer had finished: the racer of rank 1 finished at an
\* earlier clock value than the racer the last tick ranked 2, and still holds
\* the position with which it crossed the line
C11_Witness ==
  /\ lastOp.name = "update"
  /\ lastOp.status = "racing"
  /\ \E i, j \in FinishedBalls(raceState.balls) :
       /\ raceState.balls[i].rank = 1
       /\ raceState.balls[j].rank = 2
       /\ raceState.balls[i].finishTime < raceState.balls[j].finishTime
       /\ raceState.balls[i].position.y > currentMap.finishZone.y

\* the stall counter of a racer, 0 when it has none
StuckTime(id) == StuckTimeOf(ballStuckTime, id)
StuckTimeAfter(id) == StuckTimeOf(ballStuckTime', id)

\* C12: in a racing tick, for every racer that is unfinished when the tick
\* begins: at a read-back speed below 0.2 its stall counter grows by 1, unless
\* that takes it past 120, in which case the racer gets the stall nudge and its
\* counter is 0 after the tick; at a speed of 0.2 or more the counter is 0
\* after the tick and there is no stall nudge. Nothing else is nudged.
C12_StallCounterAndNudge ==
  [][ (lastOp'.name = "update" /\ Status = "racing") =>
        /\ lastOp'.stallNudged \subseteq
             { raceState.balls[i].id : i \in 1..Len(raceState.balls) }
        /\ \A i \in 1..Len(raceState.balls) :
             LET id == raceState.balls[i].id
                 v == raceState'.balls[i].velocity
                 slow == v.x * v.x + v.y * v.y < StuckSpeedTenths * StuckSpeedTenths
             IN ~raceState.balls[i].finished =>
                  IF slow
                  THEN IF StuckTime(id) = StuckLimit
                       THEN StuckTimeAfter(id) = 0 /\ id \in lastOp'.stallNudged
                       ELSE /\ StuckTimeAfter(id) = StuckTime(id) + 1
                            /\ StuckTimeAfter(id) <= StuckLimit
                            /\ id \notin lastOp'.stallNudged
                  ELSE StuckTimeAfter(id) = 0 /\ id \notin lastOp'.stallNudged ]_vars

\* the tick that has just run gave a racer the stall nudge and left its counter 0
C12_Witness ==
  /\ lastOp.name = "update"
  /\ lastOp.status = "racing"
  /\ lastOp.stallNudged # {}
  /\ \A id \in lastOp.stallNudged : StuckTime(id) = 0

\* C13: an accepted startRace leaves the stall counter of every racer it spawns
\* at 0, so that no stalled tick of an earlier race counts in the new one.
C13_StallCountersClearedAtStart ==
  [][ (lastOp'.name = "startRace" /\ Status \notin { "countdown", "racing" }) =>
        \A i \in 1..Len(raceState'.balls) : StuckTimeAfter(raceState'.balls[i].id) = 0 ]_vars

\* the frame that has just run was an observation of a non-empty racer set
Observed == lastOp.name = "loop" /\ lastOp.ready /\ Len(lastOp.balls) > 0
ObservedNext == lastOp'.name = "loop" /\ lastOp'.ready /\ Len(lastOp'.balls) > 0
IdsOf(balls) == { balls[i].id : i \in 1..Len(balls) }
ProgressOf(balls, id) == FindBall(balls, id, TopBall(balls)).progress

\* C14: at an observation where the tracked leader A is in the racer set and
\* the top racer B is another one: with B.progress - A.progress > 10 the
\* tracked leader becomes B and the candidate is cleared; with a gap of at most
\* 10 the tracked leader becomes B only if B has been on top at every
\* observation for at least 140 ms and was the candidate, else it stays A with
\* B as the candidate, keeping its timestamp if B was already the candidate
\* and stamped now otherwise. An observation with A on top clears the candidate.
C14_LeaderSwitchHysteresis ==
  [][ (ObservedNext /\ trackedLeaderId \in IdsOf(lastOp'.balls)) =>
        LET balls == lastOp'.balls
            A == trackedLeaderId
            B == TopBall(balls).id
            gap == TopBall(balls).progress - ProgressOf(balls, A)
        IN IF B = A
           THEN trackedLeaderId' = A /\ pendingLeader' = NoPending
           ELSE IF gap > 10
                THEN trackedLeaderId' = B /\ pendingLeader' = NoPending
                ELSE /\ trackedLeaderId' \in { A, B }
                     /\ trackedLeaderId' = B =>
                          /\ pendingLeader.id = B
                          /\ topRun.id = B
                          /\ topRun'.id = B
                          /\ perfNow' - topRun.since >= 140
                          /\ pendingLeader.since >= topRun.since
                          /\ pendingLeader' = NoPending
                     /\ trackedLeaderId' = A =>
                          /\ pendingLeader'.id = B
                          /\ pendingLeader'.since =
                               (IF pendingLeader.id = B THEN pendingLeader.since ELSE perfNow')
                          /\ perfNow' - pendingLeader'.since < 140 ]_vars

\* the observation that has just run switched the camera to a challenger that
\* leads by no more than the margin, after it had spent the grace period on top
C14_Witness ==
  /\ Observed
  /\ lastOp.tracked \in IdsOf(lastOp.balls)
  /\ trackedLeaderId # lastOp.tracked
  /\ trackedLeaderId = TopBall(lastOp.balls).id
  /\ TopBall(lastOp.balls).progress - ProgressOf(lastOp.balls, lastOp.tracked) = 5
  /\ lastOp.pending.id = trackedLeaderId
  /\ perfNow - lastOp.pending.since = 140

\* a startRace is being accepted in this step
StartAccepted == lastOp'.name = "startRace" /\ Status \notin { "countdown", "racing" }
\* the spawn point of the contestant at position i of the roster (index i - 1)
SpawnPointOf(map, i) == map.spawnPoints[((i - 1) % Len(map.spawnPoints)) + 1]

\* C15: an accepted startRace leaves status = countdown and countdown = 3; the
\* racer map then holds, in roster order, one racer per registered contestant
\* and nothing else, each with the contestant's id, progress 0, finished =
\* false, zero velocity, no rank and no finishTime, placed at the height of
\* spawnPoints[index mod number of spawn points] and within the jitter of 20
\* of its x; every body belongs to one of these racers.
C15_StartRaceSpawnsRoster ==
  [][ StartAccepted =>
        /\ Status \in { "waiting", "finished" }
        /\ StatusAfter = "countdown"
        /\ raceState'.countdown = 3
        /\ Len(raceState'.balls) = Len(players)
        /\ ballBodies' = players
        /\ \A i \in 1..Len(players) :
             LET ball == raceState'.balls[i]
                 spawn == SpawnPointOf(currentMap', i)
             IN /\ ball.id = players[i]
                /\ \A j \in 1..Len(players) : players[j] = players[i] => j = i
                /\ ball.progress = 0
                /\ ball.finished = FALSE
                /\ ball.velocity = [ x |-> 0, y |-> 0 ]
                /\ ~Has(ball, "rank")
                /\ ~Has(ball, "finishTime")
                /\ ball.position.y = spawn.y
                /\ ball.position.x - spawn.x \in -20..20 ]_vars

\* a second race has just been started with four contestants: the fourth is
\* placed at the first spawn point, at the left end of the jitter
C15_Witness ==
  /\ lastOp.name = "startRace"
  /\ lastOp.status = "finished"
  /\ Status = "countdown"
  /\ Len(raceState.balls) = 4
  /\ Len(currentMap.spawnPoints) = 3
  /\ raceState.balls[4].position.x = currentMap.spawnPoints[1].x - 20

\* C16: an accepted startRace builds the world of the course whose id was sent,
\* or of the first course when no course has that id, and then starts the
\* countdown; the course id of the race is then the id of that course, which is
\* one of the known courses.
C16_UnknownCourseFallsBack ==
  [][ StartAccepted =>
        LET known == { i \in 1..Len(allMaps) : allMaps[i].id = lastOp'.arg }
        IN /\ StatusAfter = "countdown"
           /\ known = {} => currentMap' = allMaps[1]
           /\ known # {} => currentMap'.id = lastOp'.arg
           /\ raceState'.mapId = currentMap'.id
           /\ \E i \in 1..Len(allMaps) : allMaps[i] = currentMap'
           /\ emitted'[Len(emitted')] = [ type |-> "raceStart", map |-> raceState'.mapId ]
    ]_vars

\* a race on an unknown course id has just been started after a finished one: it
\* runs on the first course
C16_Witness ==
  /\ lastOp.name = "startRace"
  /\ lastOp.status = "finished"
  /\ \A i \in 1..Len(allMaps) : allMaps[i].id # lastOp.arg
  /\ Status = "countdown"
  /\ raceState.mapId = allMaps[1].id
  /\ currentMap = allMaps[1]
  /\ Len(raceState.balls) > 0

\* C17: a tick that runs while status is racing emits exactly one snapshot,
\* that of the race state as the tick leaves it; every step that changes the
\* status emits a snapshot of the state it leaves; a tick that runs while
\* status is not racing emits nothing and changes neither the race state nor
\* bodies, stall counters or timers.
C17_SnapshotEveryTickAndTransition ==
  [][ /\ (lastOp'.name = "update" /\ Status = "racing") =>
           emitted' = << Snapshot(raceState') >>
      /\ StatusAfter # Status =>
           \E k \in 1..Len(emitted') : emitted'[k] = Snapshot(raceState')
      /\ (lastOp'.name = "update" /\ Status # "racing") =>
           /\ emitted' = << >>
           /\ UNCHANGED << raceState, ballBodies, ballStuckTime, raceEndTimeout, timeouts,
                           intervals, players, currentMap >> ]_vars

\* a racing tick has just run in which one of two racers crossed the line: the
\* one snapshot it emitted shows that racer finished
C17_Witness ==
  /\ lastOp.name = "update"
  /\ lastOp.status = "racing"
  /\ Len(emitted) = 1
  /\ emitted[1].type = "raceUpdate"
  /\ Len(emitted[1].state.balls) = 2
  /\ FinishedCount(emitted[1].state.balls) = 1
  /\ raceEndTimeout # Null

\* C18: the roster changes only in a join, addMusicfyPlayer or removePlayer
\* step; starting a race, a countdown callback, a tick and a finalization leave
\* it as it is, and a race that is started spawns exactly the roster.
C18_RosterChangedOnlyByCommands ==
  [][ /\ players' # players =>
           lastOp'.name \in { "join", "addMusicfyPlayer", "removePlayer" }
      /\ lastOp'.name \in { "startRace", "countdownInterval", "update", "raceEndTimeout" } =>
           players' = players
      /\ StartAccepted => BallIds(raceState'.balls) = SeqToSet(players') ]_vars

\* a second race has just been started, after a finalization, with a roster of
\* two or more
C18_Witness ==
  /\ lastOp.name = "startRace"
  /\ lastOp.status = "finished"
  /\ Status = "countdown"
  /\ Len(players) >= 2
  /\ BallIds(raceState.balls) = SeqToSet(players)

C20_FinishedEmptiedGoesWaiting ==
  [][ ( /\ lastOp'.name = "removePlayer"
        /\ Status = "finished"
        /\ Len(raceState.balls) > 0
        /\ Len(raceState'.balls) = 0 ) => StatusAfter = "waiting" ]_vars

\* C21: when the physics backend fails to step during a racing tick, the tick
\* ends the race - status waiting, a raceEnd event sent - and the server keeps
\* ticking
C21_BackendFailureEndsRace ==
  [][ (lastOp'.name = "update" /\ lastOp'.threw)
        => /\ StatusAfter = "waiting"
           /\ \E i \in 1..Len(emitted') : emitted'[i].type = "raceEnd"
           /\ serverUp' ]_vars

(***************************************************************************)
(* calculateProgress against the geometry it stands for, the geometry taken *)
(* in exact arithmetic over naturals of any size.                           *)
(***************************************************************************)
Projected == projResult # NoResult

Clamp(v, lo, hi) == Max(lo, Min(hi, v))

\* the segments of a polyline that have a length
Segments(path) ==
  { i \in 1..(Len(path) - 1) : path[i].x # path[i + 1].x \/ path[i].y # path[i + 1].y }

SegLengthSq(path, i) ==
  (path[i + 1].x - path[i].x) * (path[i + 1].x - path[i].x)
    + (path[i + 1].y - path[i].y) * (path[i + 1].y - path[i].y)

SegLength(path, i) == Sqrt(SegLengthSq(path, i))

RECURSIVE LengthBefore(_, _)
LengthBefore(path, i) ==
  IF i <= 1 THEN 0 ELSE LengthBefore(path, i - 1) + SegLength(path, i - 1)

TotalLength(path) == LengthBefore(path, Len(path))

\* (pos - p1) . (p2 - p1), and the same clamped to the segment: the clamped
\* projection point lies SegDotClamped / SegLengthSq of the way from p1 to p2
SegDot(pos, path, i) ==
  (pos.x - path[i].x) * (path[i + 1].x - path[i].x)
    + (pos.y - path[i].y) * (path[i + 1].y - path[i].y)

SegDotClamped(pos, path, i) == Clamp(SegDot(pos, path, i), 0, SegLengthSq(path, i))

\* SegLengthSq times the squared distance from pos to the clamped projection point
SegDistSqScaled(pos, path, i) ==
  LET v2 == (pos.x - path[i].x) * (pos.x - path[i].x)
              + (pos.y - path[i].y) * (pos.y - path[i].y)
      tn == BigOfNat(SegDotClamped(pos, path, i))
  IN BigSub(BigAdd(BigMul(BigOfNat(v2), BigOfNat(SegLengthSq(path, i))), BigMul(tn, tn)),
            BigMulLimb(BigMul(tn, BigOfNat(Max(0, SegDot(pos, path, i)))), 2))

\* -1, 0, 1 as segment i is nearer to pos than segment j, as near, or farther
CompareDistance(pos, path, i, j) ==
  BigCmp(BigMul(SegDistSqScaled(pos, path, i), BigOfNat(SegLengthSq(path, j))),
         BigMul(SegDistSqScaled(pos, path, j), BigOfNat(SegLengthSq(path, i))))

\* the segment with the smallest squared distance to pos, the earliest on a tie
NearestSegment(pos, path) ==
  CHOOSE i \in Segments(path) :
    \A j \in Segments(path) :
      \/ CompareDistance(pos, path, i, j) < 0
      \/ CompareDistance(pos, path, i, j) = 0 /\ i <= j

\* x >= 0 is the rational p / q up to floating-point rounding: a relative error of
\* at most 2^-51, three roundings of 2^-53 each and their products
NearRatio(x, p, q) ==
  LET a == BigShl(BigMul(x.mant, q), Max(x.exp, 0))
      b == BigShl(p, Max(-x.exp, 0))
      diff == IF BigCmp(a, b) >= 0 THEN BigSub(a, b) ELSE BigSub(b, a)
  IN x.sign = 1 /\ BigCmp(BigShl(diff, 51), b) <= 0

\* the y of the last point: the length of a vertical polyline that starts at y = 0
EndY(path) == path[Len(path)].y

C23_ProjectionOnNearestSegment ==
  (Projected /\ Len(projPath) >= 2)
    => /\ ~NumLess(projResult.value, Zero)
       /\ ~NumLess(Num(TotalLength(projPath)), projResult.value)
       /\ IF Segments(projPath) = {}
          THEN projResult.value = Zero /\ projResult.segment = 0
          ELSE LET i == NearestSegment(projPos, projPath)
               IN /\ projResult.segment = i
                  /\ NearRatio(projResult.value,
                               BigAdd(BigMul(BigOfNat(LengthBefore(projPath, i)),
                                             BigOfNat(SegLengthSq(projPath, i))),
                                      BigMul(BigOfNat(SegDotClamped(projPos, projPath, i)),
                                             BigOfNat(SegLength(projPath, i)))),
                               BigOfNat(SegLengthSq(projPath, i)))

\* a position as near to the second segment as to the first, on a path whose
\* middle segment has no length: the first segment is taken
C23_Witness ==
  /\ Projected
  /\ projPath = << Point(0, 0), Point(100, 0), Point(100, 0), Point(100, 100) >>
  /\ projPos = Point(90, 10)
  /\ projResult = [ value |-> Num(90), segment |-> 1 ]

SpinnerSetters == { "Body.setPosition", "Body.setVelocity", "Body.setAngularVelocity" }
CallsOf(calls, names) == { k \in 1..Len(calls) : calls[k] \in names }
RacingTick == lastOp'.name = "update" /\ lastOp'.status = "racing" /\ ~lastOp'.threw

StartTimeOf(rs) == IF Has(rs, "startTime") THEN rs.startTime ELSE Null
RaceIsOn(status) == status \in { "racing", "finished" }

\* C25: startTime is set at the instant status becomes racing and is not modified
\* again while status is racing or finished; every finishTime is measured from that
\* same start and is non-negative
C25_StartTimeFixedWhileRacing ==
  [][ /\ (Status # "racing" /\ StatusAfter = "racing") => StartTimeOf(raceState') = now
      /\ (RaceIsOn(Status) /\ RaceIsOn(StatusAfter))
           => StartTimeOf(raceState') = StartTimeOf(raceState)
      /\ \A i \in 1..Len(raceState'.balls) :
           (/\ raceState'.balls[i].finished
            /\ \E j \in 1..Len(raceState.balls) :
                 /\ raceState.balls[j].id = raceState'.balls[i].id
                 /\ ~raceState.balls[j].finished)
             => /\ raceState'.balls[i].finishTime = now - StartTimeOf(raceState)
                /\ raceState'.balls[i].finishTime >= 0 ]_vars

\* C26: countdown is always in 0..3: in 1..3 while status is countdown, and 0 while
\* status is waiting, racing or finished
C26_CountdownRange ==
  /\ raceState.countdown \in 0..CountdownStart
  /\ Status = "countdown" => raceState.countdown \in 1..CountdownStart
  /\ Status \in { "waiting", "racing", "finished" } => raceState.countdown = 0

\* C27: at most one countdown timer is live at any time, and it is live only while
\* status is countdown - across startRace, removals and timer callbacks, also when
\* a removal empties the race during the countdown and a new startRace follows
C27_OneCountdownTimer ==
  /\ Cardinality(intervals) <= 1
  /\ intervals # {} => Status = "countdown"

\* C28: in every reachable state the set of racer ids in the race state equals the
\* set of ids that own a body
C28_RacersOwnTheBodies == BallIds(raceState.balls) = SeqToSet(ballBodies)

\* a race of two from which one racer has been removed
C28_Witness ==
  /\ lastOp.name = "removePlayer"
  /\ Len(emitted) = 2
  /\ Status = "racing"
  /\ Cardinality(BallIds(raceState.balls)) = 1
  /\ Len(players) = 1


\* the racers that have crossed the line
FinishedIds(balls) == { balls[i].id : i \in { j \in 1..Len(balls) : balls[j].finished } }

\* the ids that got an impulse in the tick that has just run
Nudged(op) == op.stallNudged \cup op.periodicNudged

\* C29: a racer that is finished when a tick begins gets no impulse in it, and the
\* stall counter of a racer that is finished before and after a step is the same
\* after it; a racer that is unfinished when a tick begins gets at most one
\* impulse in it, the stall nudge only at a read-back speed below 0.2 and the
\* periodic nudge only at a read-back speed of 0.2 or more.
C29_OneImpulsePerTick ==
  [][ /\ \A id \in FinishedIds(raceState.balls) \cap FinishedIds(raceState'.balls) :
           /\ StuckTimeAfter(id) = StuckTime(id)
           /\ (id \in DOMAIN ballStuckTime') = (id \in DOMAIN ballStuckTime)
      /\ lastOp'.name = "update" =>
           /\ Nudged(lastOp') \cap FinishedIds(raceState.balls) = {}
           /\ Nudged(lastOp') \subseteq BallIds(raceState.balls)
           /\ lastOp'.stallNudged \cap lastOp'.periodicNudged = {}
           /\ \A id \in Nudged(lastOp') :
                LET v == raceState'.balls[BallIndex(raceState'.balls, id)].velocity
                    slow == v.x * v.x + v.y * v.y < StuckSpeedTenths * StuckSpeedTenths
                IN /\ id \in lastOp'.stallNudged => slow
                   /\ id \in lastOp'.periodicNudged => ~slow ]_vars

\* the tick that has just run read a racer at a speed of exactly 0.2 and gave it
\* the periodic nudge and no other
C29_Witness ==
  /\ lastOp.name = "update"
  /\ lastOp.status = "racing"
  /\ lastOp.stallNudged = {}
  /\ \E id \in lastOp.periodicNudged :
       LET v == lastOp.readBack[id].velocity
       IN /\ v.x * v.x + v.y * v.y = StuckSpeedTenths * StuckSpeedTenths
          /\ ~BallOf(id).finished
          /\ StuckTime(id) = 0

\* the tick that has just run passed over a finished racer whose stall counter is
\* not 0
C29_FinishedWitness ==
  /\ lastOp.name = "update"
  /\ lastOp.status = "racing"
  /\ Nudged(lastOp) = {}
  /\ \E id \in FinishedIds(raceState.balls) :
       /\ id \notin DOMAIN lastOp.readBack
       /\ StuckTime(id) > 0


\* C30: an observation of an empty racer set leaves trackedLeaderId and the
\* pending candidate cleared; the first observation of a non-empty set after it
\* leaves trackedLeaderId at the racer of the highest progress (the first of
\* them in the snapshot) and no pending candidate.
C30_ResetAndInitialise ==
  [][ (lastOp'.name = "loop" /\ lastOp'.ready) =>
        IF Len(lastOp'.balls) = 0
        THEN trackedLeaderId' = NullId /\ pendingLeader' = NoPending
        ELSE SinceEmpty(lastOp) = 0 =>
               /\ trackedLeaderId' = TopBall(lastOp'.balls).id
               /\ \A j \in 1..Len(lastOp'.balls) :
                    lastOp'.balls[j].progress <=
                      ProgressOf(lastOp'.balls, trackedLeaderId')
               /\ pendingLeader' = NoPending ]_vars

\* the loop saw an empty racer set, and the observation that has just run is the
\* first of a non-empty set since: of several racers, the top one not the first
\* of them
C30_Witness ==
  /\ lastOp.name = "loop"
  /\ lastOp.ready
  /\ lastOp.sinceEmpty = 1
  /\ lastOp.tracked = NullId
  /\ Len(lastOp.balls) > 1
  /\ TopBall(lastOp.balls).id # lastOp.balls[1].id
  /\ trackedLeaderId = TopBall(lastOp.balls).id


\* C31: at most one finalize timer is pending, the one raceEndTimeout names, and
\* none during a countdown; an accepted startRace leaves no finalize timer
\* pending; a finalize timer is armed only by a racing tick after which a racer
\* of the race is finished; and status becomes finished only when a pending
\* finalize timer fires in status racing.
C31_StartRaceCancelsFinalizeTimer ==
  [][ /\ Cardinality(timeouts) <= 1
      /\ \A t \in timeouts : t.id = raceEndTimeout
      /\ Status = "countdown" => timeouts = {}
      /\ StartAccepted => (timeouts' = {} /\ raceEndTimeout' = Null)
      /\ timeouts' \ timeouts # {} =>
           /\ lastOp'.name = "update"
           /\ Status = "racing"
           /\ BallIds(raceState'.balls) = BallIds(raceState.balls)
           /\ FinishedIds(raceState'.balls) # {}
      /\ (Status # "finished" /\ StatusAfter = "finished") =>
           /\ lastOp'.name = "raceEndTimeout"
           /\ Status = "racing"
           /\ timeouts \ timeouts' # {} ]_vars

\* a startRace has just been accepted while the finalize timer of the race before
\* was still pending, and cancelled it
C31_Witness ==
  /\ lastOp.name = "startRace"
  /\ lastOp.cleared # {}
  /\ Status = "countdown"
  /\ timeouts = {}


\* C32: whenever status is countdown or racing, the racer map holds at least one
\* racer
C32_NoRaceWithoutRacers ==
  Status \in { "countdown", "racing" } => Len(raceState.balls) > 0


\* the results lists among the events of the step that is being taken
ResultsEmitted ==
  { emitted'[i].results :
      i \in { j \in 1..Len(emitted') : emitted'[j].type = "raceEnd" } }

\* C33: in a step in which status becomes finished, a racer of the racer map has
\* finished = true, and the first entry of the results list emitted is the racer
\* whose rank in the racer map is 1.
C33_FinishedHasWinner ==
  [][ (Status # "finished" /\ StatusAfter = "finished") =>
        /\ FinishedIds(raceState'.balls) # {}
        /\ ResultsEmitted # {}
        /\ \A results \in ResultsEmitted :
             /\ Len(results) > 0
             /\ results[1].rank = 1
             /\ \E i \in 1..Len(raceState'.balls) :
                  /\ raceState'.balls[i].id = results[1].playerId
                  /\ raceState'.balls[i].finished
                  /\ RankOr(raceState'.balls[i], 0) = 1 ]_vars


\* the racer of the racer map that entry e of a results list stands for
RacerOf(balls, e) == balls[BallIndex(balls, e.playerId)]

\* C34: in every results list emitted, the ranks are pairwise distinct and are
\* exactly 1..M for the M racers listed; a finished racer carries the rank it was
\* given when it finished, an unfinished racer its position in the list, which is
\* greater than the rank of every finisher.
C34_ResultRanksArePermutation ==
  [][ \A results \in ResultsEmitted :
        LET M == Len(results)
        IN /\ { results[k].rank : k \in 1..M } = 1..M
           /\ \A k, l \in 1..M : results[k].rank = results[l].rank => k = l
           /\ { results[k].playerId : k \in 1..M } = BallIds(raceState.balls)
           /\ \A k \in 1..M :
                IF RacerOf(raceState.balls, results[k]).finished
                THEN results[k].rank = RacerOf(raceState.balls, results[k]).rank
                ELSE /\ results[k].rank = k
                     /\ \A l \in 1..M :
                          RacerOf(raceState.balls, results[l]).finished =>
                            results[l].rank < k ]_vars


\* the racers that cross the line in the step that is being taken, by their
\* index in the racer map after it
NewlyFinished ==
  { i \in 1..Len(raceState'.balls) :
      /\ raceState'.balls[i].finished
      /\ \E j \in 1..Len(raceState.balls) :
           /\ raceState.balls[j].id = raceState'.balls[i].id
           /\ ~raceState.balls[j].finished }

\* C35: of two finished racers of the racer map, the one with the lower rank has
\* a finishTime less than or equal to the other's; the racers that finish in one
\* tick get the same finishTime and consecutive ranks in the order of the racer
\* map.
C35_FinishTimesFollowRanks ==
  [][ /\ \A i, j \in FinishedBalls(raceState'.balls) :
           raceState'.balls[i].rank < raceState'.balls[j].rank =>
             raceState'.balls[i].finishTime <= raceState'.balls[j].finishTime
      /\ lastOp'.name = "update" =>
           \A i, j \in NewlyFinished :
             /\ raceState'.balls[i].finishTime = raceState'.balls[j].finishTime
             /\ (i < j /\ \A k \in NewlyFinished : ~(i < k /\ k < j)) =>
                  raceState'.balls[j].rank = raceState'.balls[i].rank + 1 ]_vars

\* C36: once a racer of the racer map is finished while status is racing, status
\* eventually is finished or waiting, whether or not the other racers finish.
C36_RaceEndsAfterFirstFinish ==
  (Status = "racing" /\ FinishedIds(raceState.balls) # {})
    ~> (Status \in { "finished", "waiting" })

\* the finalize timer has just ended a running race in which one racer had
\* finished and another had not
C36_Witness ==
  /\ lastOp.name = "raceEndTimeout"
  /\ lastOp.status = "racing"
  /\ Status = "finished"
  /\ FinishedIds(raceState.balls) # {}
  /\ FinishedIds(raceState.balls) # BallIds(raceState.balls)

\* the numbers of the addMusicfyPlayer ids among a set of ids
MfNumbers(ids) == { id[2] : id \in { i \in ids : i[1] = "mf" } }

\* C37: a join or addMusicfyPlayer leaves status, countdown, racer map, bodies,
\* stall counters, course and every timer as they are; the racer map gets a new
\* racer only in an accepted startRace; an addMusicfyPlayer that registers a
\* contestant issues the id numbered nextPlayerId, which no contestant or racer
\* holds, and counts nextPlayerId up by one; nextPlayerId never goes down and is
\* above the number of every id issued so far that a contestant or racer holds.
C37_RegistrationChangesOnlyRoster ==
  [][ /\ lastOp'.name \in { "join", "addMusicfyPlayer" } =>
           /\ UNCHANGED << raceState, ballBodies, spinningBodies, ballStuckTime,
                           currentMap, raceEndTimeout, timeouts, intervals >>
           /\ SeqToSet(players) \subseteq SeqToSet(players')
      /\ ~(BallIds(raceState'.balls) \subseteq BallIds(raceState.balls)) => StartAccepted
      /\ (lastOp'.name = "addMusicfyPlayer" /\ emitted' # << >>) =>
           /\ emitted'[1].id = MfId(nextPlayerId)
           /\ emitted'[1].id \notin SeqToSet(players) \cup BallIds(raceState.balls)
           /\ SeqToSet(players') = SeqToSet(players) \cup { emitted'[1].id }
           /\ nextPlayerId' = nextPlayerId + 1
      /\ nextPlayerId' >= nextPlayerId
      /\ \A n \in MfNumbers(SeqToSet(players') \cup BallIds(raceState'.balls)) :
           n < nextPlayerId' ]_vars

\* an addMusicfyPlayer during a race has just registered a contestant under a new
\* id, after the holder of an earlier id was removed; the contestant has no racer
C37_Witness ==
  /\ lastOp.name = "addMusicfyPlayer"
  /\ lastOp.status = "racing"
  /\ emitted # << >>
  /\ emitted[1].id = MfId(2)
  /\ MfId(2) \in SeqToSet(players)
  /\ MfId(1) \notin SeqToSet(players)
  /\ MfId(2) \notin BallIds(raceState.balls)
  /\ raceState.balls # << >>

\* C38: after every observation of a non-empty racer set, trackedLeaderId is the
\* id of a racer of that set.
C38_TrackedLeaderIsPresent ==
  [][ ObservedNext => trackedLeaderId' \in IdsOf(lastOp'.balls) ]_vars

\* C39: trackedLeaderId changes from one racer to another only in an observation
\* in which the new one is the top racer of the set and its progress is strictly
\* greater than the progress of the old one; a tracked leader whose progress is
\* the maximum of the set is not replaced.
C39_LeaderChangesOnlyToStrictlyAhead ==
  [][ /\ (trackedLeaderId # NullId /\ trackedLeaderId' # NullId
            /\ trackedLeaderId' # trackedLeaderId) =>
           /\ ObservedNext
           /\ trackedLeaderId' = TopBall(lastOp'.balls).id
           /\ trackedLeaderId \in IdsOf(lastOp'.balls)
           /\ ProgressOf(lastOp'.balls, trackedLeaderId') >
                ProgressOf(lastOp'.balls, trackedLeaderId)
      /\ (ObservedNext /\ trackedLeaderId \in IdsOf(lastOp'.balls)
            /\ \A j \in 1..Len(lastOp'.balls) :
                 lastOp'.balls[j].progress <= ProgressOf(lastOp'.balls, trackedLeaderId)) =>
           trackedLeaderId' = trackedLeaderId ]_vars

====
